---- MODULE Spec2Model ----
(***************************************************************************)
(* VRC Log Renamer: the rename pass (rename_main / move_log_file /         *)
(* move_file) and the two front ends that start it (main "rename" /        *)
(* "scheduled", and the GUI's Execute Now button).                         *)
(*                                                                         *)
(* The file system is modelled as two folders: the source folder (src) and *)
(* the output folder (out).  A file is a record                            *)
(*   bytes  : whose content it holds (the name of the log it was written   *)
(*            from, "foreign" for a file another process made)             *)
(*   hdr    : what the first 19 bytes hold: a timestamp (1, 2), Bad (19    *)
(*            bytes that do not parse) or Short (fewer than 19 bytes)      *)
(*   chunks : how many of the NChunks buffer fills of the content are      *)
(*            present; a file is complete when chunks = NChunks.           *)
(* Every I/O call can fail: each action has the failure branch of the      *)
(* call next to its success branch.                                        *)
(***************************************************************************)
EXTENDS Integers, FiniteSets, Sequences, TLC

(* ---- bounds ---- *)
MaxRuns == 2        \* rename passes started in one behaviour
NChunks == 2        \* buffer fills io::copy needs for one log
MaxForeign == 1     \* files another process drops into the output folder

(* ---- the environment ---- *)
LocalOffset == 1    \* hours the local zone is ahead of UTC
Bad == 8            \* header: 19 bytes that are no timestamp
Short == 9          \* header: the file has fewer than 19 bytes
Stamps == {1, 2}    \* civil timestamps a log can start with
SrcNames == {"log1", "log2", "note"}
Caps == {"", "5"}
Live == {"log1"}    \* the logs the log producer may hold open

NoFile == [bytes |-> "none", hdr |-> 0, chunks |-> 0]
LogFile(n, h) == [bytes |-> n, hdr |-> h, chunks |-> NChunks]
Foreign == [bytes |-> "foreign", hdr |-> 0, chunks |-> NChunks]

NoDst == <<0 - 1, "">>
DstNames == {<<t, c>> : t \in 0..2, c \in Caps}

\* creation time (local civil time) the file system keeps for a source file
CTime(n) == IF n = "log2" THEN 2 ELSE 1

(* ---- configuration ---- *)
\* A document (config.toml, or the GUI's input fields): the two pattern
\* texts by class, and the flags.
\*   regex: "ok"  a regex that compiles (the default pattern)
\*          "bad" a text Regex::new rejects
\*   templ: "ts"  calendar fields only
\*          "cap" calendar fields and {regex:in_sec_num} (the default)
\*          "tz"  calendar fields and a timezone name item (%Z)
\*          "bad" a text parse_pattern rejects
Docs == [regex : {"ok", "bad"}, templ : {"ts", "cap", "tz", "bad"},
         keep_old : BOOLEAN, utc_time : BOOLEAN, file_ctime : BOOLEAN]
Missing == [regex |-> "none", templ |-> "none",
            keep_old |-> FALSE, utc_time |-> FALSE, file_ctime |-> FALSE]

\* impl Default for ConfigFile
DefaultConfig == [regex |-> "ok", templ |-> "cap",
                  keep_old |-> TRUE, utc_time |-> FALSE, file_ctime |-> FALSE]

\* Regex::new
RegexCompiles(r) == r = "ok"

\* mutant of PatternParses: the check for Item::Error is missing
PatternParses_any(t) == TRUE

\* parse_pattern(str).is_some()
PatternParses(t) == t \in {"ts", "cap", "tz"}

\* read_config: defaults when the file is missing, an error when a pattern
\* text of the document is rejected, the document's values otherwise.
read_config(file) ==
    IF file = Missing THEN [ok |-> TRUE, val |-> DefaultConfig]
    ELSE IF ~RegexCompiles(file.regex) THEN [ok |-> FALSE, val |-> Missing]
    ELSE IF ~PatternParses(file.templ) THEN [ok |-> FALSE, val |-> Missing]
    ELSE [ok |-> TRUE, val |-> file]

\* GUIInputs::create_config: None when a pattern text is rejected; the GUI
\* has no input for file_ctime.
create_config(inp) ==
    IF ~RegexCompiles(inp.regex) THEN [ok |-> FALSE, val |-> Missing]
    ELSE IF ~PatternParses(inp.templ) THEN [ok |-> FALSE, val |-> Missing]
    ELSE [ok |-> TRUE, val |-> [inp EXCEPT !.file_ctime = FALSE]]

\* config.source().pattern().captures(file_name).is_some()
Matches(cfg, n) == cfg.regex = "ok" /\ n \in {"log1", "log2"}

\* captures.name("in_sec_num"), "" when the group did not take part
Capture(n) == IF n = "log2" THEN "5" ELSE ""

VARIABLES
    mode,        \* "cli": main with "rename"/"scheduled"; "gui": the window
    cfgFile,     \* content of config.toml (Missing when there is none)
    inputs,      \* the GUI's input fields
    config,      \* the ConfigFile the running pass was given
    src,         \* source folder: name -> file
    out,         \* output folder: name -> file
    outDir,      \* the output folder exists
    locked,      \* source files another process holds open
    pc,          \* position of the program
    todo,        \* entries the read_dir iterator has not returned yet
    cur,         \* entry move_log_file is working on ("none" outside)
    ts,          \* (utc_date, local_date) resolved for cur
    dst,         \* dst_path computed for cur
    renameErr,   \* what fs::rename returned for cur
    createdNew,  \* move_by_copy's to_file was created by create_new
    flushed,     \* move_by_copy's to_file.flush() returned Ok
    result,      \* per entry: what move_log_file returned in this pass
    passResult,  \* what rename_main returned
    failedAt,    \* the pass-level call that failed in this pass
    ops,         \* file changes made in this pass: <<kind, entry, dst>>
    run,         \* passes started
    saves,       \* successful save_config calls
    dialog,      \* the message box the GUI showed last
    foreign,     \* files another process created in the output folder
    outStart,    \* the output folder when the current pass started
    prevDone,    \* entries the pass before relocated or found relocated
    prevSkipped, \* entries the pass before skipped as held open
    task         \* the scheduled task: "absent" or "registered"

\* The functions of the program that work on values alone are exercised on
\* inputs of their own; the rename pass leaves these variables alone.
VARIABLES
    text,        \* a template text given to parse_pattern
    pattern,     \* a Vec<Item>: Output::pattern
    printed,     \* what pattern_to_string returned for pattern
    reparsed,    \* what parse_pattern returned for the printed text
    fname,       \* a file name given to the source pattern
    lit,         \* the text of a literal item given to MatchingIter
    shown,       \* the item MatchingIter::next returned
    bytes,       \* the content of a file given to assume_launch_time
    launch,      \* what assume_launch_time returned
    orderA,      \* an order in which read_dir returns the entries
    orderB,      \* another order of the same entries
    endA,        \* the folders after the pass over orderA
    endB,        \* the folders after the pass over orderB
    toml,        \* a configuration document given to read_from_file
    loaded,      \* what read_config returned for toml
    written,     \* the document save_config wrote for loaded
    reread       \* what read_config returned for written

cfgVars == <<toml, loaded, written, reread>>
fnVars == <<text, pattern, printed, reparsed, fname, lit, shown, bytes,
            launch, orderA, orderB, endA, endB, cfgVars>>


vars == <<mode, cfgFile, inputs, config, src, out, outDir, locked, pc, todo,
          cur, ts, dst, renameErr, createdNew, flushed, result, passResult,
          failedAt, ops, run, saves, dialog, foreign, outStart, prevDone,
          prevSkipped, task,
          text, pattern, printed, reparsed, fname, lit, shown, bytes,
          launch, orderA, orderB, endA, endB, toml, loaded, written, reread>>

fsVars == <<src, out, outDir>>
frontVars == <<mode, cfgFile, inputs, config, saves, dialog, task>>
localVars == <<cur, ts, dst, renameErr, createdNew, flushed>>
passVars == <<todo, result, passResult, failedAt, run, outStart, prevDone,
              prevSkipped>>
envVars == <<locked, foreign>>

NoResult == [n \in SrcNames |-> "none"]
NoTs == [utc |-> 0 - 1, local |-> 0 - 1]

\* Option / Result values
None == [ok |-> FALSE, val |-> <<>>]
Some(v) == [ok |-> TRUE, val |-> v]

\* no configuration document is being read
CfgIdle ==
    /\ toml = <<>>
    /\ loaded = None
    /\ written = None
    /\ reread = None

\* no function is being exercised
FnIdle ==
    /\ CfgIdle
    /\ text = <<>>
    /\ pattern = None
    /\ printed = None
    /\ reparsed = None
    /\ fname = <<>>
    /\ lit = <<>>
    /\ shown = None
    /\ bytes = <<>>
    /\ launch = None
    /\ orderA = <<>>
    /\ orderB = <<>>
    /\ endA = None
    /\ endB = None

TypeOK ==
    /\ mode \in {"cli", "gui"}
    /\ cfgFile \in Docs \cup {Missing}
    /\ inputs \in Docs
    /\ config \in Docs \cup {Missing}
    /\ outDir \in BOOLEAN
    /\ locked \subseteq SrcNames
    /\ cur \in SrcNames \cup {"none"}
    /\ dst \in DstNames \cup {NoDst}
    /\ renameErr \in {"none", "ok", "xdev", "other"}
    /\ passResult \in {"none", "ok", "err"}
    /\ failedAt \in {"none", "mkdir", "readdir", "entry"}
    /\ run \in 0..MaxRuns
    /\ prevSkipped \subseteq SrcNames
    /\ task \in {"absent", "registered"}
    /\ \A n \in SrcNames : src[n].chunks \in 0..NChunks
    /\ \A d \in DstNames : out[d].chunks \in 0..NChunks

(* ---- initial states ---- *)
\* The source folder: log1 and log2 match the source pattern, note does not.
InitSrc ==
    {[n \in SrcNames |->
        IF n = "log1" THEN LogFile("log1", h1)
        ELSE IF n = "log2" THEN LogFile("log2", h2)
        ELSE LogFile("note", Bad)] : h1 \in {1, 2, Bad, Short}, h2 \in {1}}

InitCommon ==
    /\ config = Missing
    /\ out = [d \in DstNames |-> NoFile]
    /\ outDir = FALSE
    /\ locked \in SUBSET Live
    /\ pc = "idle"
    /\ todo = {}
    /\ cur = "none"
    /\ ts = NoTs
    /\ dst = NoDst
    /\ renameErr = "none"
    /\ createdNew = FALSE
    /\ flushed = FALSE
    /\ result = NoResult
    /\ passResult = "none"
    /\ failedAt = "none"
    /\ ops = {}
    /\ run = 0
    /\ saves = 0
    /\ dialog = "none"
    /\ foreign = 0
    /\ outStart = [d \in DstNames |-> NoFile]
    /\ prevDone = {}
    /\ prevSkipped = {}
    /\ task = "absent"

\* Every document, valid or not, with every source folder.
Init ==
    /\ InitCommon
    /\ FnIdle
    /\ src \in InitSrc
    /\ mode \in {"cli", "gui"}
    /\ IF mode = "cli"
       THEN cfgFile \in Docs \cup {Missing} /\ inputs = DefaultConfig
       ELSE cfgFile = Missing /\ inputs \in {d \in Docs : ~d.file_ctime}

(* ---- front ends ---- *)
\* rename_main is entered: the per-pass records start empty.
StartPass(c) ==
    /\ config' = c
    /\ pc' = "mkdir"
    /\ run' = run + 1
    /\ todo' = {}
    /\ result' = NoResult
    /\ passResult' = "none"
    /\ failedAt' = "none"
    /\ ops' = {}
    /\ outStart' = out
    /\ prevDone' = {n \in SrcNames : result[n] \in {"ok", "exists"}}
    /\ prevSkipped' = {n \in SrcNames : result[n] = "skipped"}
    /\ renameErr' = "none"
    /\ UNCHANGED <<cur, ts, dst, createdNew, flushed>>

\* main, mode "rename" / "scheduled": read_config()? then rename_main.
MainRename ==
    /\ mode = "cli"
    /\ pc \in {"idle", "done"}
    /\ run < MaxRuns
    /\ read_config(cfgFile).ok
    /\ StartPass(read_config(cfgFile).val)
    /\ UNCHANGED <<mode, cfgFile, inputs, saves, dialog, task, fsVars, envVars>>
    /\ UNCHANGED fnVars

\* main, mode "rename" / "scheduled": read_config failed (the file could not
\* be read, or a value of the document was rejected); main returns the error.
MainConfigError ==
    /\ mode = "cli"
    /\ pc \in {"idle", "done"}
    /\ run < MaxRuns
    /\ \/ ~read_config(cfgFile).ok
       \/ cfgFile # Missing      \* fs::read_to_string failed, not NotFound
    /\ pc' = "exit"
    /\ UNCHANGED <<frontVars, fsVars, envVars, localVars, passVars, ops>>
    /\ UNCHANGED fnVars

\* Execute Now, create_config returned None: a message box, nothing else.
GuiInvalid ==
    /\ mode = "gui"
    /\ pc \in {"idle", "done"}
    /\ ~create_config(inputs).ok
    /\ dialog' = "invalid"
    /\ pc' = "idle"
    /\ UNCHANGED <<mode, cfgFile, inputs, config, saves, task, fsVars, envVars,
                   localVars, passVars, ops>>
    /\ UNCHANGED fnVars

\* Execute Now, save_config failed: a message box, no pass.
GuiSaveError ==
    /\ mode = "gui"
    /\ pc \in {"idle", "done"}
    /\ create_config(inputs).ok
    /\ dialog' = "saveerr"
    /\ pc' = "idle"
    /\ UNCHANGED <<mode, cfgFile, inputs, config, saves, task, fsVars, envVars,
                   localVars, passVars, ops>>
    /\ UNCHANGED fnVars

\* Execute Now: create_save_config returned the new configuration;
\* rename_main(&new_config) is called.
GuiExecute ==
    /\ mode = "gui"
    /\ pc \in {"idle", "done"}
    /\ run < MaxRuns
    /\ create_config(inputs).ok
    /\ cfgFile' = create_config(inputs).val
    /\ saves' = saves + 1
    /\ dialog' = "none"
    /\ StartPass(create_config(inputs).val)
    /\ UNCHANGED <<mode, inputs, task, fsVars, envVars>>
    /\ UNCHANGED fnVars

\* Execute Now: the message box after rename_main returned.
GuiReport ==
    /\ mode = "gui"
    /\ pc = "done"
    /\ dialog = "none"
    /\ dialog' = IF passResult = "err" THEN "error" ELSE "succeed"
    /\ UNCHANGED <<mode, cfgFile, inputs, config, saves, task, fsVars, envVars,
                   localVars, passVars, ops, pc>>
    /\ UNCHANGED fnVars

(* ---- rename_main ---- *)
\* mutant of PassFails: the failure is dropped and the pass returns Ok
PassFails_swallowed(at) ==
    /\ passResult' = "ok"
    /\ failedAt' = at
    /\ pc' = "done"
    /\ todo' = {}
    /\ UNCHANGED <<result, run, outStart, prevDone, prevSkipped>>

\* The pass ends with a failure of the call `at`.
PassFails(at) ==
    /\ passResult' = "err"
    /\ failedAt' = at
    /\ pc' = "done"
    /\ todo' = {}
    /\ UNCHANGED <<result, run, outStart, prevDone, prevSkipped>>

\* fs::create_dir_all(out_folder)?
MakeOutDir ==
    /\ pc = "mkdir"
    /\ \/ /\ outDir' = TRUE
          /\ pc' = "readdir"
          /\ UNCHANGED passVars
       \/ /\ PassFails("mkdir")
          /\ UNCHANGED outDir
    /\ UNCHANGED <<frontVars, src, out, envVars, localVars, ops>>
    /\ UNCHANGED fnVars

\* fs::read_dir(config.source().folder())?
ReadDir ==
    /\ pc = "readdir"
    /\ \/ /\ todo' = {n \in SrcNames : src[n] # NoFile}
          /\ pc' = "next"
          /\ UNCHANGED <<result, passResult, failedAt, run, outStart, prevDone,
                         prevSkipped>>
       \/ PassFails("readdir")
    /\ UNCHANGED <<frontVars, fsVars, envVars, localVars, ops>>
    /\ UNCHANGED fnVars

\* let entry = entry?;  the iterator returned an error
EntryError ==
    /\ pc = "next"
    /\ todo # {}
    /\ PassFails("entry")
    /\ UNCHANGED <<frontVars, fsVars, envVars, localVars, ops>>
    /\ UNCHANGED fnVars

\* the entry's file name does not match the source pattern
EntrySkip ==
    /\ pc = "next"
    /\ \E n \in todo :
        /\ ~Matches(config, n)
        /\ todo' = todo \ {n}
    /\ UNCHANGED <<frontVars, fsVars, envVars, localVars, ops, pc, result,
                   passResult, failedAt, run, outStart, prevDone, prevSkipped>>
    /\ UNCHANGED fnVars

\* the entry's file name matches: move_log_file is called
EntryMatch ==
    /\ pc = "next"
    /\ \E n \in todo :
        /\ Matches(config, n)
        /\ todo' = todo \ {n}
        /\ cur' = n
    /\ pc' = "open"
    /\ ts' = NoTs
    /\ dst' = NoDst
    /\ renameErr' = "none"
    /\ createdNew' = FALSE
    /\ flushed' = FALSE
    /\ UNCHANGED <<frontVars, fsVars, envVars, ops, result, passResult,
                   failedAt, run, outStart, prevDone, prevSkipped>>
    /\ UNCHANGED fnVars

\* the iterator is exhausted: Ok(())
PassDone ==
    /\ pc = "next"
    /\ todo = {}
    /\ passResult' = "ok"
    /\ pc' = "done"
    /\ UNCHANGED <<frontVars, fsVars, envVars, localVars, ops, todo, result,
                   failedAt, run, outStart, prevDone, prevSkipped>>
    /\ UNCHANGED fnVars

(* ---- move_log_file ---- *)
\* mutant of Return: move_log_file(..)? , an error of one entry ends the pass
Return_propagates(r) ==
    /\ result' = [result EXCEPT ![cur] = r]
    /\ pc' = IF r = "err" THEN "done" ELSE "next"
    /\ passResult' = IF r = "err" THEN "err" ELSE passResult
    /\ cur' = "none"
    /\ ts' = NoTs
    /\ dst' = NoDst
    /\ createdNew' = FALSE
    /\ flushed' = FALSE
    /\ UNCHANGED <<todo, failedAt, run, outStart, prevDone, prevSkipped>>

\* move_log_file returns r for the current entry; the loop goes on.
Return(r) ==
    /\ result' = [result EXCEPT ![cur] = r]
    /\ pc' = "next"
    /\ cur' = "none"
    /\ ts' = NoTs
    /\ dst' = NoDst
    /\ createdNew' = FALSE
    /\ flushed' = FALSE
    /\ UNCHANGED <<todo, passResult, failedAt, run, outStart, prevDone,
                   prevSkipped>>

\* mutant of CanOpen: the open does not notice the other process
CanOpen_ignoring_lock(n) == src[n] # NoFile

\* File::options().write(true).read(true).open(path) returns Ok
CanOpen(n) == src[n] # NoFile /\ n \notin locked

\* first, try to open the file read+write; Err(_) => skip, return Ok(())
OpenLog ==
    /\ pc = "open"
    /\ IF CanOpen(cur)
       THEN /\ pc' = "time"
            /\ UNCHANGED <<localVars, passVars>>
       ELSE /\ Return("skipped")
            /\ UNCHANGED renameErr
    /\ UNCHANGED <<frontVars, fsVars, envVars, ops>>
    /\ UNCHANGED fnVars

\* mutant of assume_launch_time: a header that cannot be read counts as the
\* first timestamp
assume_launch_time_lenient(f) ==
    IF f.hdr \in {Short, Bad} THEN [ok |-> TRUE, val |-> [utc |-> 1, local |-> 1]]
    ELSE [ok |-> TRUE, val |-> [utc |-> f.hdr, local |-> f.hdr]]

\* assume_launch_time: read_exact of 19 bytes, from_utf8, parse_from_str;
\* the civil time read is also the UTC instant (and_local_timezone(Utc)).
assume_launch_time(f) ==
    IF f.hdr = Short THEN [ok |-> FALSE, val |-> NoTs]
    ELSE IF f.hdr = Bad THEN [ok |-> FALSE, val |-> NoTs]
    ELSE [ok |-> TRUE, val |-> [utc |-> f.hdr, local |-> f.hdr]]

\* file.metadata()?.created()? as DateTime<Local>, and its UTC instant
creation_time(n) == [utc |-> CTime(n) - LocalOffset, local |-> CTime(n)]

\* then, assume launch time
ResolveTime ==
    /\ pc = "time"
    /\ \/ /\ config.file_ctime
          /\ ts' = creation_time(cur)
          /\ pc' = "check"
          /\ UNCHANGED <<cur, dst, renameErr, createdNew, flushed, passVars>>
       \/ /\ ~config.file_ctime
          /\ assume_launch_time(src[cur]).ok
          /\ ts' = assume_launch_time(src[cur]).val
          /\ pc' = "check"
          /\ UNCHANGED <<cur, dst, renameErr, createdNew, flushed, passVars>>
       \/ /\ ~config.file_ctime
          /\ ~assume_launch_time(src[cur]).ok
          /\ Return("err")
          /\ UNCHANGED renameErr
       \/ /\ Return("err")         \* metadata / read failed with an I/O error
          /\ UNCHANGED renameErr
    /\ UNCHANGED <<frontVars, fsVars, envVars, ops>>
    /\ UNCHANGED fnVars

\* mutant of Render: with utc_time the time is shifted from local time to UTC
Render_converted(cfg, t, n) ==
    <<IF cfg.utc_time THEN t.utc - LocalOffset ELSE t.local,
      IF cfg.templ = "cap" THEN Capture(n) ELSE "">>

\* format!("{}", date.format_with_items(pat_iter)): the rendered file name
Render(cfg, t, n) ==
    <<IF cfg.utc_time THEN t.utc ELSE t.local,
      IF cfg.templ = "cap" THEN Capture(n) ELSE "">>

\* Display of a timezone item fails on the zone-less local_date: format! panics
RenderPanics(cfg) == cfg.templ = "tz" /\ ~cfg.utc_time

\* Data to copy log is ready: fs::create_dir_all(config.output().folder())?
CheckDir ==
    /\ pc = "check"
    /\ \/ /\ outDir' = TRUE
          /\ pc' = "render"
          /\ UNCHANGED <<localVars, passVars>>
       \/ /\ Return("err")
          /\ UNCHANGED <<outDir, renameErr>>
    /\ UNCHANGED <<frontVars, src, out, envVars, ops>>
    /\ UNCHANGED fnVars

\* rendering the name aborts the process
RenderAbort ==
    /\ pc = "render"
    /\ RenderPanics(config)
    /\ pc' = "panicked"
    /\ UNCHANGED <<frontVars, fsVars, envVars, ops, localVars, passVars>>
    /\ UNCHANGED fnVars

\* mutant of DstExists: the existence check is dropped
DstExists_dropped(d) == FALSE

\* if dst_path.exists() { return Ok(()) }
DstExists(d) == out[d] # NoFile

\* mutant of CheckDst: keep_old is not looked at, the log is always moved
CheckDst_moves ==
    /\ pc = "render"
    /\ ~RenderPanics(config)
    /\ LET d == Render(config, ts, cur) IN
        IF DstExists(d)
        THEN /\ Return("exists")
             /\ UNCHANGED renameErr
        ELSE /\ dst' = d
             /\ pc' = "rename"
             /\ UNCHANGED <<cur, ts, renameErr, createdNew, flushed, passVars>>
    /\ UNCHANGED <<frontVars, fsVars, envVars, ops>>
    /\ UNCHANGED fnVars

\* dst_path is computed; when it exists the copy/move is assumed done,
\* otherwise the copy (keep_old) or the move follows.
CheckDst ==
    /\ pc = "render"
    /\ ~RenderPanics(config)
    /\ LET d == Render(config, ts, cur) IN
        IF DstExists(d)
        THEN /\ Return("exists")
             /\ UNCHANGED renameErr
        ELSE /\ dst' = d
             /\ pc' = IF config.keep_old THEN "copy" ELSE "rename"
             /\ UNCHANGED <<cur, ts, renameErr, createdNew, flushed, passVars>>
    /\ UNCHANGED <<frontVars, fsVars, envVars, ops>>
    /\ UNCHANGED fnVars

\* what a failed copy leaves at the destination: k buffer fills of the source
Partial(f, k) == [f EXCEPT !.chunks = k]

\* fs::copy(&path, &dst_path)? : the destination is written (an existing
\* one is overwritten); a failure leaves nothing or a partial destination.
CopyLog ==
    /\ pc = "copy"
    /\ \/ /\ out' = [out EXCEPT ![dst] = src[cur]]
          /\ ops' = ops \cup {<<"copy", cur, dst>>}
          /\ pc' = "meta"
          /\ UNCHANGED <<localVars, passVars>>
       \/ /\ UNCHANGED <<out, ops>>
          /\ Return("err")
          /\ UNCHANGED renameErr
       \/ /\ \E k \in 0..(NChunks - 1) :
                out' = [out EXCEPT ![dst] = Partial(src[cur], k)]
          /\ ops' = ops \cup {<<"partial", cur, dst>>}
          /\ Return("err")
          /\ UNCHANGED renameErr
    /\ UNCHANGED <<frontVars, src, outDir, envVars>>
    /\ UNCHANGED fnVars

\* The result of the block after fs::copy: File::open(&path)?.metadata()?,
\* File::open(&dst_path)?, SetFileTime, and
\*   if success.as_bool() { return Err(io::Error::last_os_error()); }
\* stamp is what happened: "meta_err", "open_err", "set" (SetFileTime
\* returned nonzero) or "not_set" (it returned zero).
stamp_result(stamp) == IF stamp = "not_set" THEN "ok" ELSE "err"

\* copy ctime and mtime
CopyTimes ==
    /\ pc = "meta"
    /\ \E stamp \in {"meta_err", "open_err", "set", "not_set"} :
        /\ Return(stamp_result(stamp))
        /\ ops' = IF stamp = "set" THEN ops \cup {<<"stamp", cur, dst>>}
                  ELSE ops
    /\ UNCHANGED <<frontVars, fsVars, envVars, renameErr>>
    /\ UNCHANGED fnVars

(* ---- move_file ---- *)
\* mutant of after_rename: every rename error starts the copy fallback
after_rename_any(outcome) ==
    IF outcome = "ok" THEN "return_ok" ELSE "move_by_copy"

\* inner: what follows each outcome of fs::rename
\*   Ok(_) => Ok(()),
\*   Err(e) if e.raw_os_error() == Some(CROSSES_DEVICES_OS_CODE) => move_by_copy
\*   Err(e) => Err(e)
after_rename(outcome) ==
    IF outcome = "ok" THEN "return_ok"
    ELSE IF outcome = "xdev" THEN "move_by_copy"
    ELSE "return_err"

\* fs::rename(from, to) and the match on its result
RenameLog ==
    /\ pc = "rename"
    /\ \E outcome \in {"ok", "xdev", "other"} :
        /\ renameErr' = outcome
        /\ IF outcome = "ok"
           THEN /\ out' = [out EXCEPT ![dst] = src[cur]]
                /\ src' = [src EXCEPT ![cur] = NoFile]
                /\ ops' = ops \cup {<<"rename", cur, dst>>}
           ELSE UNCHANGED <<src, out, ops>>
        /\ CASE after_rename(outcome) = "return_ok" -> Return("ok")
             [] after_rename(outcome) = "move_by_copy" ->
                    /\ pc' = "mbc_open"
                    /\ UNCHANGED <<cur, ts, dst, createdNew, flushed,
                                   passVars>>
             [] OTHER -> Return("err")
    /\ UNCHANGED <<frontVars, outDir, envVars>>
    /\ UNCHANGED fnVars

\* move_by_copy: File::options().read(true).write(true).open(from)?
MbcOpen ==
    /\ pc = "mbc_open"
    /\ IF CanOpen(cur)
       THEN /\ pc' = "mbc_create"
            /\ UNCHANGED <<localVars, passVars>>
       ELSE /\ Return("err")
            /\ UNCHANGED renameErr
    /\ UNCHANGED <<frontVars, fsVars, envVars, ops>>
    /\ UNCHANGED fnVars

\* mutant of create_new_ok: create(true).truncate(true) instead of create_new
create_new_ok_truncate(d) == TRUE

\* File::options().create_new(true) succeeds only when nothing is at `to`
create_new_ok(d) == out[d] = NoFile

\* move_by_copy: File::options().create_new(true).write(true).open(to)?
MbcCreate ==
    /\ pc = "mbc_create"
    /\ \/ /\ create_new_ok(dst)
          /\ createdNew' = (out[dst] = NoFile)
          /\ out' = [out EXCEPT ![dst] = Partial(src[cur], 0)]
          /\ ops' = ops \cup {<<"create", cur, dst>>}
          /\ pc' = "mbc_copy"
          /\ UNCHANGED <<cur, ts, dst, renameErr, flushed, passVars>>
       \/ /\ Return("err")
          /\ UNCHANGED <<out, ops, renameErr>>
    /\ UNCHANGED <<frontVars, src, outDir, envVars>>
    /\ UNCHANGED fnVars

\* io::copy(&mut from_file, &mut to_file)? : one buffer is written
MbcWrite ==
    /\ pc = "mbc_copy"
    /\ out[dst].chunks < NChunks
    /\ out' = [out EXCEPT ![dst].chunks = @ + 1]
    /\ UNCHANGED <<frontVars, src, outDir, envVars, localVars, passVars, ops,
                   pc>>
    /\ UNCHANGED fnVars

\* io::copy returns an error: nothing is cleaned up
MbcCopyError ==
    /\ pc = "mbc_copy"
    /\ Return("err")
    /\ UNCHANGED <<frontVars, fsVars, envVars, ops, renameErr>>
    /\ UNCHANGED fnVars

\* io::copy read the end of the source and returns Ok
MbcCopyDone ==
    /\ pc = "mbc_copy"
    /\ out[dst].chunks = NChunks
    /\ pc' = "mbc_flush"
    /\ UNCHANGED <<frontVars, fsVars, envVars, localVars, passVars, ops>>
    /\ UNCHANGED fnVars

\* to_file.flush()?
MbcFlush ==
    /\ pc = "mbc_flush"
    /\ \/ /\ flushed' = TRUE
          /\ pc' = "mbc_remove"
          /\ UNCHANGED <<cur, ts, dst, renameErr, createdNew, passVars>>
       \/ /\ Return("err")
          /\ UNCHANGED renameErr
    /\ UNCHANGED <<frontVars, fsVars, envVars, ops>>
    /\ UNCHANGED fnVars

\* fs::remove_file(from)?
MbcRemove ==
    /\ pc = "mbc_remove"
    /\ \/ /\ src' = [src EXCEPT ![cur] = NoFile]
          /\ ops' = ops \cup {<<"delete", cur, dst>>}
          /\ Return("ok")
       \/ /\ Return("err")
          /\ UNCHANGED <<src, ops>>
    /\ UNCHANGED <<frontVars, out, outDir, envVars, renameErr>>
    /\ UNCHANGED fnVars

(* ---- other processes ---- *)
\* the log producer opens a log, or closes it
ToggleLock ==
    /\ \E n \in Live :
        /\ src[n] # NoFile
        /\ locked' = IF n \in locked THEN locked \ {n} ELSE locked \cup {n}
    /\ UNCHANGED <<frontVars, fsVars, localVars, passVars, ops, pc, foreign>>
    /\ UNCHANGED fnVars

\* another process creates the file the pass is about to write, after the
\* pass found it absent
OtherCreates ==
    /\ foreign < MaxForeign
    /\ pc \in {"copy", "rename", "mbc_open", "mbc_create"}
    /\ out[dst] = NoFile
    /\ out' = [out EXCEPT ![dst] = Foreign]
    /\ foreign' = foreign + 1
    /\ UNCHANGED <<frontVars, src, outDir, localVars, passVars, ops, pc,
                   locked>>
    /\ UNCHANGED fnVars

\* the steps of the program
Program ==
    \/ MainRename
    \/ MainConfigError
    \/ GuiInvalid
    \/ GuiSaveError
    \/ GuiExecute
    \/ GuiReport
    \/ MakeOutDir
    \/ ReadDir
    \/ EntryError
    \/ EntrySkip
    \/ EntryMatch
    \/ PassDone
    \/ OpenLog
    \/ ResolveTime
    \/ CheckDir
    \/ RenderAbort
    \/ CheckDst
    \/ CopyLog
    \/ CopyTimes
    \/ RenameLog
    \/ MbcOpen
    \/ MbcCreate
    \/ MbcWrite
    \/ MbcCopyError
    \/ MbcCopyDone
    \/ MbcFlush
    \/ MbcRemove

\* the program, the log producer and other writers of the output folder
Next ==
    \/ Program
    \/ ToggleLock
    \/ OtherCreates

Spec == Init /\ [][Next]_vars

\* the program alone: no other process touches the folders or the locks
SpecQuiet == Init /\ [][Program]_vars

(* ---- the window: Install and Uninstall ---- *)
MaxSaves == 2       \* save_config calls of one session of the window

\* mutant of create_save_config: the configuration is returned although
\* save_config failed
create_save_config_unsaved(inp, saved) ==
    IF create_config(inp).ok THEN create_config(inp)
    ELSE [ok |-> FALSE, val |-> Missing]

\* GUIInputs::create_save_config: Some(new_config) when create_config
\* returned a configuration and save_config_with_error_dialog returned Ok
create_save_config(inp, saved) ==
    IF create_config(inp).ok /\ saved THEN create_config(inp)
    ELSE [ok |-> FALSE, val |-> Missing]

\* no handler of the window is running
GuiAtRest == pc = "idle" \/ (pc = "done" /\ dialog # "none")

\* Install: create_save_config, then register_task_manager()? and the
\* message box; an error of register_task_manager leaves the handler
GuiInstall ==
    /\ mode = "gui"
    /\ GuiAtRest
    /\ saves < MaxSaves
    /\ \E saved \in BOOLEAN :
        /\ create_save_config(inputs, saved).ok
        /\ cfgFile' = IF saved THEN create_config(inputs).val ELSE cfgFile
        /\ saves' = IF saved THEN saves + 1 ELSE saves
    /\ \E registered \in BOOLEAN :
        /\ task' = IF registered THEN "registered" ELSE task
        /\ dialog' = IF registered THEN "installed" ELSE dialog
    /\ pc' = "idle"
    /\ UNCHANGED <<mode, inputs, config, fsVars, envVars, localVars,
                   passVars, ops>>
    /\ UNCHANGED fnVars

\* Uninstall: create_save_config, then unregister_task_manager()? (which
\* deletes the task if there is one) and the message box
GuiUninstall ==
    /\ mode = "gui"
    /\ GuiAtRest
    /\ saves < MaxSaves
    /\ \E saved \in BOOLEAN :
        /\ create_save_config(inputs, saved).ok
        /\ cfgFile' = IF saved THEN create_config(inputs).val ELSE cfgFile
        /\ saves' = IF saved THEN saves + 1 ELSE saves
    /\ \E unregistered \in BOOLEAN :
        /\ task' = IF unregistered THEN "absent" ELSE task
        /\ dialog' = IF unregistered THEN "uninstalled" ELSE dialog
    /\ pc' = "idle"
    /\ UNCHANGED <<mode, inputs, config, fsVars, envVars, localVars,
                   passVars, ops>>
    /\ UNCHANGED fnVars

\* the window is open: gui_main
InitGui == Init /\ mode = "gui" /\ locked = {}

\* the handlers of the window and the pass Execute Now starts
NextGui ==
    \/ GuiInvalid
    \/ GuiSaveError
    \/ GuiExecute
    \/ GuiReport
    \/ GuiInstall
    \/ GuiUninstall
    \/ MakeOutDir
    \/ ReadDir
    \/ EntryError
    \/ EntrySkip
    \/ EntryMatch
    \/ PassDone
    \/ OpenLog
    \/ ResolveTime
    \/ CheckDir
    \/ RenderAbort
    \/ CheckDst
    \/ CopyLog
    \/ CopyTimes
    \/ RenameLog
    \/ MbcOpen
    \/ MbcCreate
    \/ MbcWrite
    \/ MbcCopyError
    \/ MbcCopyDone
    \/ MbcFlush
    \/ MbcRemove

SpecGui == InitGui /\ [][NextGui]_vars

(* ======================================================================= *)
(* The output pattern: parse_pattern, pattern_to_string                    *)
(* ======================================================================= *)
\* A text is a sequence of characters.  An item of chrono::format::Item is
\*   <<"Literal", run>>  <<"OwnedLiteral", run>>  <<"Space", run>>
\*   <<"OwnedSpace", run>>  <<"Numeric", field, pad>>  <<"Fixed", field>>
\*   <<"Internal", field>> (Fixed::Internal)  <<"Error">>

MaxText == 3        \* characters of a template text that is tried
MaxItems == 2       \* items of an item sequence that is tried

\* the characters template texts are made of
Chars == {"%", "0", "-", "#", ":", "Y", "U", "w", "Z", "z", "3", "f", "x", " "}
Texts == UNION {[1..n -> Chars] : n \in 0..MaxText}

ErrorItem == <<"Error">>
Num0(n) == <<"Numeric", n, "Zero">>
NumS(n) == <<"Numeric", n, "Space">>
NumN(n) == <<"Numeric", n, "None">>
Fix(f) == <<"Fixed", f>>
LitOf(r) == <<"Literal", r>>
SpOf(r) == <<"Space", r>>

IsSpace(c) == c \in {" ", "\t", "\n"}

\* StrftimeItems::next, the table of specifiers that are one letter
SpecItems(c) ==
    CASE c = "A" -> <<Fix("LongWeekdayName")>>
      [] c = "B" -> <<Fix("LongMonthName")>>
      [] c = "C" -> <<Num0("YearDiv100")>>
      [] c = "D" -> <<Num0("Month"), LitOf(<<"/">>), Num0("Day"),
                      LitOf(<<"/">>), Num0("YearMod100")>>
      [] c = "F" -> <<Num0("Year"), LitOf(<<"-">>), Num0("Month"),
                      LitOf(<<"-">>), Num0("Day")>>
      [] c = "G" -> <<Num0("IsoYear")>>
      [] c = "H" -> <<Num0("Hour")>>
      [] c = "I" -> <<Num0("Hour12")>>
      [] c = "M" -> <<Num0("Minute")>>
      [] c = "P" -> <<Fix("LowerAmPm")>>
      [] c = "R" -> <<Num0("Hour"), LitOf(<<":">>), Num0("Minute")>>
      [] c = "S" -> <<Num0("Second")>>
      [] c \in {"T", "X"} ->
                    <<Num0("Hour"), LitOf(<<":">>), Num0("Minute"),
                      LitOf(<<":">>), Num0("Second")>>
      [] c = "U" -> <<Num0("WeekFromSun")>>
      [] c = "V" -> <<Num0("IsoWeek")>>
      [] c = "W" -> <<Num0("WeekFromMon")>>
      [] c = "Y" -> <<Num0("Year")>>
      [] c = "Z" -> <<Fix("TimezoneName")>>
      [] c = "a" -> <<Fix("ShortWeekdayName")>>
      [] c \in {"b", "h"} -> <<Fix("ShortMonthName")>>
      [] c = "c" -> <<Fix("ShortWeekdayName"), SpOf(<<" ">>),
                      Fix("ShortMonthName"), SpOf(<<" ">>), NumS("Day"),
                      SpOf(<<" ">>), Num0("Hour"), LitOf(<<":">>),
                      Num0("Minute"), LitOf(<<":">>), Num0("Second"),
                      SpOf(<<" ">>), Num0("Year")>>
      [] c = "d" -> <<Num0("Day")>>
      [] c = "e" -> <<NumS("Day")>>
      [] c = "f" -> <<Num0("Nanosecond")>>
      [] c = "g" -> <<Num0("IsoYearMod100")>>
      [] c = "j" -> <<Num0("Ordinal")>>
      [] c = "k" -> <<NumS("Hour")>>
      [] c = "l" -> <<NumS("Hour12")>>
      [] c = "m" -> <<Num0("Month")>>
      [] c = "n" -> <<SpOf(<<"\n">>)>>
      [] c = "p" -> <<Fix("UpperAmPm")>>
      [] c = "r" -> <<Num0("Hour12"), LitOf(<<":">>), Num0("Minute"),
                      LitOf(<<":">>), Num0("Second"), SpOf(<<" ">>),
                      Fix("UpperAmPm")>>
      [] c = "s" -> <<NumN("Timestamp")>>
      [] c = "t" -> <<SpOf(<<"\t">>)>>
      [] c = "u" -> <<NumN("WeekdayFromMon")>>
      [] c = "v" -> <<NumS("Day"), LitOf(<<"-">>), Fix("ShortMonthName"),
                      LitOf(<<"-">>), Num0("Year")>>
      [] c = "w" -> <<NumN("NumDaysFromSun")>>
      [] c = "x" -> <<Num0("Month"), LitOf(<<"/">>), Num0("Day"),
                      LitOf(<<"/">>), Num0("YearMod100")>>
      [] c = "y" -> <<Num0("YearMod100")>>
      [] c = "+" -> <<Fix("RFC3339")>>
      [] c = "%" -> <<LitOf(<<"%">>)>>
      [] OTHER -> <<ErrorItem>>

\* one item and the text after it
One(item, rest) == [items |-> <<item>>, rest |-> rest]

\* 'f' must follow: %.3f, %3f, ...
ThenF(item, r) ==
    IF r = <<>> THEN One(ErrorItem, <<>>)
    ELSE IF Head(r) = "f" THEN One(item, Tail(r))
    ELSE One(ErrorItem, Tail(r))

\* StrftimeItems::next, the specifier `spec` with the text r after it
SpecBody(spec, alt, r) ==
    CASE spec = ":" ->
            IF r = <<>> THEN One(ErrorItem, <<>>)
            ELSE IF Head(r) = "z" THEN One(Fix("TimezoneOffsetColon"), Tail(r))
            ELSE One(ErrorItem, Tail(r))
      [] spec = "." ->
            IF r = <<>> THEN One(ErrorItem, <<>>)
            ELSE IF Head(r) = "3" THEN ThenF(Fix("Nanosecond3"), Tail(r))
            ELSE IF Head(r) = "6" THEN ThenF(Fix("Nanosecond6"), Tail(r))
            ELSE IF Head(r) = "9" THEN ThenF(Fix("Nanosecond9"), Tail(r))
            ELSE IF Head(r) = "f" THEN One(Fix("Nanosecond"), Tail(r))
            ELSE One(ErrorItem, Tail(r))
      [] spec = "3" -> ThenF(<<"Internal", "Nanosecond3NoDot">>, r)
      [] spec = "6" -> ThenF(<<"Internal", "Nanosecond6NoDot">>, r)
      [] spec = "9" -> ThenF(<<"Internal", "Nanosecond9NoDot">>, r)
      [] spec = "z" ->
            IF alt THEN One(<<"Internal", "TimezoneOffsetPermissive">>, r)
            ELSE One(Fix("TimezoneOffset"), r)
      [] OTHER -> [items |-> SpecItems(spec), rest |-> r]

\* StrftimeItems::next at a '%': s is the text after the '%'.  A padding
\* flag is allowed on a single numeric item only.
Specifier(s) ==
    IF s = <<>> THEN One(ErrorItem, <<>>)
    ELSE LET c0 == Head(s)
             flag == c0 \in {"-", "0", "_", "#"}
         IN IF flag /\ Len(s) = 1 THEN One(ErrorItem, <<>>)
            ELSE LET spec == IF flag THEN s[2] ELSE c0
                     r == IF flag THEN SubSeq(s, 3, Len(s)) ELSE Tail(s)
                     alt == c0 = "#"
                 IN IF alt /\ spec # "z" THEN One(ErrorItem, r)
                    ELSE LET b == SpecBody(spec, alt, r)
                             pad == CASE c0 = "-" -> "None"
                                      [] c0 = "0" -> "Zero"
                                      [] c0 = "_" -> "Space"
                                      [] OTHER -> "keep"
                         IN IF pad = "keep" THEN b
                            ELSE IF Len(b.items) = 1
                                    /\ b.items[1][1] = "Numeric"
                            THEN One(<<"Numeric", b.items[1][2], pad>>, b.rest)
                            ELSE [items |-> <<ErrorItem>> \o Tail(b.items),
                                  rest |-> b.rest]

\* length of the longest prefix of s made of white space (sp) or of
\* characters that are neither white space nor '%' (~sp)
RECURSIVE RunLen(_, _)
RunLen(s, sp) ==
    IF s = <<>> THEN 0
    ELSE IF sp /\ IsSpace(Head(s)) THEN 1 + RunLen(Tail(s), sp)
    ELSE IF ~sp /\ ~IsSpace(Head(s)) /\ Head(s) # "%"
         THEN 1 + RunLen(Tail(s), sp)
    ELSE 0

\* chrono::format::StrftimeItems::new(s).collect()
RECURSIVE StrftimeItems(_)
StrftimeItems(s) ==
    IF s = <<>> THEN <<>>
    ELSE IF Head(s) = "%"
    THEN LET b == Specifier(Tail(s)) IN b.items \o StrftimeItems(b.rest)
    ELSE LET k == RunLen(s, IsSpace(Head(s)))
             head == SubSeq(s, 1, k)
         IN <<IF IsSpace(Head(s)) THEN SpOf(head) ELSE LitOf(head)>>
            \o StrftimeItems(SubSeq(s, k + 1, Len(s)))

\* format_internal_format: the text of the internal fields that have one
format_internal_format(f) ==
    CASE f = "Nanosecond3NoDot" -> Some(<<"%", "3", "f">>)
      [] f = "Nanosecond6NoDot" -> Some(<<"%", "6", "f">>)
      [] f = "Nanosecond9NoDot" -> Some(<<"%", "9", "f">>)
      [] OTHER -> None

\* mutant of own_strftime: internal fixed fields are let through unchecked
own_strftime_lenient(item) ==
    CASE item[1] = "Literal" -> <<"OwnedLiteral", item[2]>>
      [] item[1] = "Space" -> <<"OwnedSpace", item[2]>>
      [] item[1] = "Fixed" /\ item[2] \in {"TimezoneOffset", "TimezoneOffsetZ"}
            -> ErrorItem
      [] OTHER -> item

\* parse_pattern::own_strftime
own_strftime(item) ==
    CASE item[1] = "Literal" -> <<"OwnedLiteral", item[2]>>
      [] item[1] = "Space" -> <<"OwnedSpace", item[2]>>
      [] item[1] = "Numeric" ->
            IF item[2] = "Internal" THEN ErrorItem ELSE item
      [] item[1] = "Internal" ->
            IF format_internal_format(item[2]).ok THEN item ELSE ErrorItem
      [] item[1] = "Fixed" ->
            IF item[2] \in {"TimezoneOffset", "TimezoneOffsetZ"}
            THEN ErrorItem ELSE item
      [] OTHER -> item

\* parse_pattern
parse_pattern(str) ==
    LET items == StrftimeItems(str)
        owned == [i \in 1..Len(items) |-> own_strftime(items[i])]
    IN IF \E i \in 1..Len(owned) : owned[i][1] = "Error"
       THEN None ELSE Some(owned)

\* pattern_to_string: the letter written for a numeric field
NumericLetter(n) ==
    CASE n = "Year" -> Some("Y")
      [] n = "YearDiv100" -> Some("C")
      [] n = "YearMod100" -> Some("y")
      [] n = "Month" -> Some("m")
      [] n = "Day" -> Some("d")
      [] n = "WeekFromSun" -> Some("w")
      [] n = "WeekFromMon" -> Some("u")
      [] n = "NumDaysFromSun" -> Some("U")
      [] n = "WeekdayFromMon" -> Some("W")
      [] n = "IsoYear" -> Some("G")
      [] n = "IsoYearMod100" -> Some("g")
      [] n = "IsoWeek" -> Some("V")
      [] n = "Ordinal" -> Some("j")
      [] n = "IsoYearDiv100" -> Some("g")
      [] n = "Hour" -> Some("H")
      [] n = "Hour12" -> Some("I")
      [] n = "Minute" -> Some("M")
      [] n = "Second" -> Some("S")
      [] n = "Nanosecond" -> Some("f")
      [] n = "Timestamp" -> Some("s")
      [] OTHER -> None          \* Numeric::Internal

\* pattern_to_string: the character written for a padding
PadChar(p) ==
    CASE p = "None" -> "-"
      [] p = "Zero" -> "0"
      [] OTHER -> "_"

\* pattern_to_string: the text written for a fixed field
FixedText(f) ==
    CASE f = "ShortMonthName" -> Some(<<"%", "b">>)
      [] f = "LongMonthName" -> Some(<<"%", "B">>)
      [] f = "ShortWeekdayName" -> Some(<<"%", "a">>)
      [] f = "LongWeekdayName" -> Some(<<"%", "A">>)
      [] f = "LowerAmPm" -> Some(<<"%", "P">>)
      [] f = "UpperAmPm" -> Some(<<"%", "p">>)
      [] f = "Nanosecond" -> Some(<<"%", ".", "f">>)
      [] f = "Nanosecond3" -> Some(<<"%", ".", "3", "f">>)
      [] f = "Nanosecond6" -> Some(<<"%", ".", "6", "f">>)
      [] f = "Nanosecond9" -> Some(<<"%", ".", "9", "f">>)
      [] f = "TimezoneName" -> Some(<<"%", "Z">>)
      [] f = "TimezoneOffsetColon" -> Some(<<"%", ":", "z">>)
      [] f = "TimezoneOffset" -> Some(<<"%", "z">>)
      [] f = "RFC2822" -> Some(<<"%", "c">>)
      [] f = "RFC3339" -> Some(<<"%", "+">>)
      [] OTHER -> None          \* TimezoneOffsetColonZ, TimezoneOffsetZ

\* pattern_to_string: the arm of one item
ItemText(x) ==
    CASE x[1] \in {"Literal", "OwnedLiteral", "Space", "OwnedSpace"} ->
            Some(x[2])
      [] x[1] = "Numeric" ->
            IF NumericLetter(x[2]).ok
            THEN Some(<<"%", PadChar(x[3]), NumericLetter(x[2]).val>>)
            ELSE None
      [] x[1] = "Fixed" -> FixedText(x[2])
      [] x[1] = "Internal" -> format_internal_format(x[2])
      [] OTHER -> None          \* Item::Error

\* pattern_to_string: Err at the first item that has no text
RECURSIVE pattern_to_string(_)
pattern_to_string(p) ==
    IF p = <<>> THEN Some(<<>>)
    ELSE LET h == ItemText(Head(p))
             t == pattern_to_string(Tail(p))
         IN IF h.ok /\ t.ok THEN Some(h.val \o t.val) ELSE None

\* what format_with_items writes for an item sequence: the characters of the
\* literal and space items, and the value of each calendar field with its
\* padding (one symbol per field and padding)
RECURSIVE Chs(_)
Chs(r) ==
    IF r = <<>> THEN <<>> ELSE <<<<"ch", Head(r)>>>> \o Chs(Tail(r))

RECURSIVE Display(_)
Display(p) ==
    IF p = <<>> THEN <<>>
    ELSE LET x == Head(p) IN
         (IF x[1] \in {"Literal", "OwnedLiteral", "Space", "OwnedSpace"}
          THEN Chs(x[2]) ELSE <<x>>) \o Display(Tail(p))

(* ---- the pattern is read, saved and read again ---- *)
\* the rename pass at rest
ProgramIdle ==
    /\ mode = "cli"
    /\ cfgFile = Missing
    /\ inputs = DefaultConfig
    /\ config = Missing
    /\ src = [n \in SrcNames |-> NoFile]
    /\ out = [d \in DstNames |-> NoFile]
    /\ outDir = FALSE
    /\ locked = {}
    /\ todo = {}
    /\ cur = "none"
    /\ ts = NoTs
    /\ dst = NoDst
    /\ renameErr = "none"
    /\ createdNew = FALSE
    /\ flushed = FALSE
    /\ result = NoResult
    /\ passResult = "none"
    /\ failedAt = "none"
    /\ ops = {}
    /\ run = 0
    /\ saves = 0
    /\ dialog = "none"
    /\ foreign = 0
    /\ outStart = [d \in DstNames |-> NoFile]
    /\ prevDone = {}
    /\ prevSkipped = {}
    /\ task = "absent"

programVars == <<mode, cfgFile, inputs, config, src, out, outDir, locked,
                 todo, cur, ts, dst, renameErr, createdNew, flushed, result,
                 passResult, failedAt, ops, run, saves, dialog, foreign,
                 outStart, prevDone, prevSkipped, task>>

\* a template text arrives from config.toml or from the GUI's pattern field
InitPattern ==
    /\ ProgramIdle
    /\ CfgIdle
    /\ pc = "text"
    /\ text \in Texts
    /\ pattern = None
    /\ printed = None
    /\ reparsed = None
    /\ fname = <<>> /\ lit = <<>> /\ shown = None
    /\ bytes = <<>> /\ launch = None
    /\ orderA = <<>> /\ orderB = <<>> /\ endA = None /\ endB = None

\* Output::read_from_file / create_config: parse_pattern(text)
ParsePattern ==
    /\ pc = "text"
    /\ pattern' = parse_pattern(text)
    /\ pc' = "parsed"
    /\ UNCHANGED <<programVars, cfgVars, text, printed, reparsed, fname, lit, shown,
                   bytes, launch, orderA, orderB, endA, endB>>

\* serialize_pattern / Output::pattern_as_string: pattern_to_string(pattern)
PatternAsString ==
    /\ pc = "parsed"
    /\ pattern.ok
    /\ printed' = pattern_to_string(pattern.val)
    /\ pc' = "printed"
    /\ UNCHANGED <<programVars, cfgVars, text, pattern, reparsed, fname, lit, shown,
                   bytes, launch, orderA, orderB, endA, endB>>

\* the saved text is read back: parse_pattern(printed)
ReloadPattern ==
    /\ pc = "printed"
    /\ printed.ok
    /\ reparsed' = parse_pattern(printed.val)
    /\ pc' = "reloaded"
    /\ UNCHANGED <<programVars, cfgVars, text, pattern, printed, fname, lit, shown,
                   bytes, launch, orderA, orderB, endA, endB>>

NextPattern ==
    \/ ParsePattern
    \/ PatternAsString
    \/ ReloadPattern

SpecPattern == InitPattern /\ [][NextPattern]_vars

(* ---- pattern_to_string on any item sequence ---- *)
NumericFields == {"Year", "IsoYearMod100", "IsoYearDiv100", "WeekFromSun",
                  "NumDaysFromSun", "Internal"}
FixedFields == {"TimezoneName", "TimezoneOffset", "TimezoneOffsetZ",
                "TimezoneOffsetColonZ", "RFC2822"}
InternalFields == {"Nanosecond3NoDot", "TimezoneOffsetPermissive"}
Items ==
    {<<"OwnedLiteral", <<"x">>>>, <<"OwnedSpace", <<" ">>>>, ErrorItem}
    \cup {<<"Numeric", n, p>> : n \in NumericFields, p \in {"Zero", "None"}}
    \cup {<<"Fixed", f>> : f \in FixedFields}
    \cup {<<"Internal", f>> : f \in InternalFields}
ItemSeqs == UNION {[1..n -> Items] : n \in 0..MaxItems}

InitToString ==
    /\ ProgramIdle
    /\ CfgIdle
    /\ pc = "parsed"
    /\ text = <<>>
    /\ pattern \in {Some(p) : p \in ItemSeqs}
    /\ printed = None
    /\ reparsed = None
    /\ fname = <<>> /\ lit = <<>> /\ shown = None
    /\ bytes = <<>> /\ launch = None
    /\ orderA = <<>> /\ orderB = <<>> /\ endA = None /\ endB = None

SpecToString == InitToString /\ [][PatternAsString]_vars

(* ======================================================================= *)
(* The file name: source pattern captures and MatchingIter                 *)
(* ======================================================================= *)
\* A file name is a sequence of pieces: "output_log", "_", the digit "5",
\* ".txt".  The source pattern is ^output_log_(?P<in_sec_num>\d+)?\.txt$ .
\* The text of a literal item is a sequence of pieces as well: the braces,
\* the colon, the words "regex" and "in_sec_num", and a plain character.

MaxLit == 5         \* pieces of the literal text that is tried

FileNames == {<<"output_log", "_", "5", ".txt">>,
              <<"output_log", "_", "5", "5", ".txt">>,
              <<"output_log", "_", ".txt">>,
              <<"output_log", ".txt">>}
LitChars == {"{", "}", ":", "regex", "in_sec_num", "x"}
LitTexts == UNION {[1..n -> LitChars] : n \in 0..MaxLit}

\* config.source().pattern().captures(file_name): None when the name does
\* not match; the group in_sec_num is None when it took no part in the match
captures(name) ==
    IF /\ Len(name) >= 3
       /\ name[1] = "output_log"
       /\ name[2] = "_"
       /\ name[Len(name)] = ".txt"
       /\ \A i \in 3..(Len(name) - 1) : name[i] = "5"
    THEN Some([in_sec_num |->
                 IF Len(name) > 3 THEN Some(SubSeq(name, 3, Len(name) - 1))
                 ELSE None])
    ELSE None

\* captures.name(name)
captures_name(caps, name) ==
    IF name = <<"in_sec_num">> THEN caps.in_sec_num ELSE None

\* index of the first c in s, 0 when there is none
Find(s, c) ==
    IF \E i \in 1..Len(s) : s[i] = c
    THEN CHOOSE i \in 1..Len(s) :
            s[i] = c /\ \A j \in 1..(i - 1) : s[j] # c
    ELSE 0

\* mutant of resolve: a group that took no part in the match is not resolved
resolve_missing(caps, var_name) ==
    LET colon == Find(var_name, ":") IN
    IF colon = 0 THEN None
    ELSE IF SubSeq(var_name, 1, colon - 1) = <<"regex">>
    THEN captures_name(caps, SubSeq(var_name, colon + 1, Len(var_name)))
    ELSE None

\* the closure move_log_file gives to MatchingIter: split_once(':'), the
\* namespace "regex" resolves to the group's text, "" without one
resolve(caps, var_name) ==
    LET colon == Find(var_name, ":") IN
    IF colon = 0 THEN None
    ELSE LET namespace == SubSeq(var_name, 1, colon - 1)
             name == SubSeq(var_name, colon + 1, Len(var_name))
         IN IF namespace = <<"regex">>
            THEN IF captures_name(caps, name).ok
                 THEN captures_name(caps, name)
                 ELSE Some(<<>>)
            ELSE None

\* MatchingIter::process_lit::loops: pat and builder when a `?` leaves it
RECURSIVE loops(_, _, _)
loops(caps, pat, builder) ==
    LET pat_start == Find(pat, "{") IN
    IF pat_start = 0 THEN [pat |-> pat, builder |-> builder]
    ELSE LET b1 == builder \o SubSeq(pat, 1, pat_start - 1)
             p1 == SubSeq(pat, pat_start, Len(pat))
             pat_end == Find(p1, "}")
         IN IF pat_end = 0 THEN [pat |-> p1, builder |-> b1]
            ELSE LET var == SubSeq(p1, 1, pat_end)
                     p2 == SubSeq(p1, pat_end + 1, Len(p1))
                     var_name == SubSeq(var, 2, Len(var) - 1)
                     r == resolve(caps, var_name)
                 IN loops(caps, p2, b1 \o (IF r.ok THEN r.val ELSE var))

\* mutant of process_lit: the text after the last placeholder is not pushed
process_lit_no_tail(caps, pat_in) ==
    LET e == loops(caps, pat_in, <<>>) IN
    IF Len(e.pat) = Len(pat_in) THEN None ELSE Some(e.builder)

\* MatchingIter::process_lit: None when pat still points at the start of
\* pat_in (pat is a suffix of pat_in: same start, same length)
process_lit(caps, pat_in) ==
    LET e == loops(caps, pat_in, <<>>) IN
    IF Len(e.pat) = Len(pat_in) THEN None ELSE Some(e.builder \o e.pat)

\* MatchingIter::next for one item of the pattern
MatchingIter_next(caps, item) ==
    IF item[1] \in {"Literal", "OwnedLiteral"}
    THEN IF process_lit(caps, item[2]).ok
         THEN <<"OwnedLiteral", process_lit(caps, item[2]).val>>
         ELSE item
    ELSE item

\* the items given to MatchingIter: the literal text as a borrowed or an
\* owned literal, and a space and a calendar item
LitItems(l) ==
    {<<"Literal", l>>, <<"OwnedLiteral", l>>}
    \cup (IF l = <<>> THEN {<<"Space", <<" ">>>>, Num0("Year")} ELSE {})

\* a directory entry and a pattern of one item
InitLiteral ==
    /\ ProgramIdle
    /\ CfgIdle
    /\ pc = "name"
    /\ fname \in FileNames
    /\ lit \in LitTexts
    /\ pattern \in {Some(<<i>>) : i \in LitItems(lit)}
    /\ shown = None
    /\ text = <<>> /\ printed = None /\ reparsed = None
    /\ bytes = <<>> /\ launch = None
    /\ orderA = <<>> /\ orderB = <<>> /\ endA = None /\ endB = None

\* rename_main: the entry's name does not match the source pattern
NameSkipped ==
    /\ pc = "name"
    /\ ~captures(fname).ok
    /\ pc' = "nomatch"
    /\ UNCHANGED <<programVars, fnVars>>

\* rename_main: the name matches, move_log_file is given the captures
NameMatched ==
    /\ pc = "name"
    /\ captures(fname).ok
    /\ pc' = "render"
    /\ UNCHANGED <<programVars, fnVars>>

\* move_log_file: format_with_items pulls the item from MatchingIter
RenderItem ==
    /\ pc = "render"
    /\ shown' = Some(MatchingIter_next(captures(fname).val, pattern.val[1]))
    /\ pc' = "shown"
    /\ UNCHANGED <<programVars, cfgVars, text, pattern, printed, reparsed, fname, lit,
                   bytes, launch, orderA, orderB, endA, endB>>

NextLiteral ==
    \/ NameSkipped
    \/ NameMatched
    \/ RenderItem

SpecLiteral == InitLiteral /\ [][NextLiteral]_vars

(* ======================================================================= *)
(* The launch time: assume_launch_time on the bytes of a log               *)
(* ======================================================================= *)
\* The content of a file is a sequence of bytes, written as characters;
\* "FF" is a byte that is not valid UTF-8.

MaxTail == 2        \* bytes that follow the 19th byte of a log that is tried

DigitChars == <<"0", "1", "2", "3", "4", "5", "6", "7", "8", "9">>
IsDigit(c) == \E i \in 1..10 : DigitChars[i] = c
DigitVal(c) == (CHOOSE i \in 1..10 : DigitChars[i] = c) - 1

\* the first 19 bytes of the logs that are tried, field by field
Headers ==
    {y \o <<sep>> \o mo \o <<".">> \o d \o <<" ">> \o h \o <<":">> \o mi
       \o <<":">> \o s :
        y \in {<<"2", "0", "2", "2">>, <<"2", "0", "2", "4">>},
        sep \in {".", "-"},
        mo \in {<<"1", "0">>, <<"0", "2">>, <<"1", "3">>},
        d \in {<<"1", "4">>, <<"3", "0">>, <<"0", "0">>},
        h \in {<<"2", "0">>, <<"2", "4">>},
        mi \in {<<"1", "5">>, <<"6", "0">>},
        s \in {<<"3", "0">>, <<"6", "0">>, <<"3", "x">>, <<"3", "FF">>}}
TailChars == {"9", " ", "x"}
Tails == UNION {[1..n -> TailChars] : n \in 0..MaxTail}

\* scan::number: how many of the first max bytes of s are digits
RECURSIVE NumLen(_, _)
NumLen(s, max) ==
    IF s = <<>> \/ max = 0 THEN 0
    ELSE IF IsDigit(Head(s)) THEN 1 + NumLen(Tail(s), max - 1)
    ELSE 0

\* the number a sequence of digits writes
RECURSIVE Value(_)
Value(ds) ==
    IF ds = <<>> THEN 0
    ELSE 10 * Value(SubSeq(ds, 1, Len(ds) - 1)) + DigitVal(ds[Len(ds)])

\* str::trim_left
RECURSIVE TrimLeft(_)
TrimLeft(s) ==
    IF s # <<>> /\ IsSpace(Head(s)) THEN TrimLeft(Tail(s)) ELSE s

\* the items of "%Y.%m.%d %H:%M:%S"
LaunchFormat ==
    <<<<"num", "year", 4>>, <<"lit", ".">>, <<"num", "month", 2>>,
      <<"lit", ".">>, <<"num", "day", 2>>, <<"space">>,
      <<"num", "hour", 2>>, <<"lit", ":">>, <<"num", "minute", 2>>,
      <<"lit", ":">>, <<"num", "second", 2>>>>

NoFields == [year |-> 0, month |-> 0, day |-> 0,
             hour |-> 0, minute |-> 0, second |-> 0]

\* chrono::format::parse over the items: a number takes one to `width`
\* digits after any white space, a literal must be there, a space item takes
\* any white space; nothing may be left at the end
RECURSIVE parse_items(_, _, _)
parse_items(s, fmt, got) ==
    IF fmt = <<>> THEN (IF s = <<>> THEN Some(got) ELSE None)
    ELSE LET it == Head(fmt) IN
         IF it[1] = "lit"
         THEN IF s # <<>> /\ Head(s) = it[2]
              THEN parse_items(Tail(s), Tail(fmt), got)
              ELSE None
         ELSE IF it[1] = "space"
         THEN parse_items(TrimLeft(s), Tail(fmt), got)
         ELSE LET t == TrimLeft(s)
                  n == NumLen(t, it[3])
              IN IF n = 0 THEN None
                 ELSE parse_items(SubSeq(t, n + 1, Len(t)), Tail(fmt),
                        [got EXCEPT ![it[2]] = Value(SubSeq(t, 1, n))])

\* NaiveDate::from_ymd_opt: the days of a month
DaysIn(y, m) ==
    IF m \in {4, 6, 9, 11} THEN 30
    ELSE IF m = 2
    THEN (IF (y % 4 = 0 /\ y % 100 # 0) \/ y % 400 = 0 THEN 29 ELSE 28)
    ELSE 31

\* Parsed::to_naive_datetime_with_offset: the fields make a date and a time;
\* second 60 is read as a leap second of second 59
to_naive_datetime(f) ==
    IF /\ f.month \in 1..12
       /\ f.day \in 1..DaysIn(f.year, f.month)
       /\ f.hour \in 0..23
       /\ f.minute \in 0..59
       /\ f.second \in 0..60
    THEN Some([year |-> f.year, month |-> f.month, day |-> f.day,
               hour |-> f.hour, minute |-> f.minute,
               second |-> IF f.second = 60 THEN 59 ELSE f.second,
               leap |-> f.second = 60])
    ELSE None

\* NaiveDateTime::parse_from_str(str, "%Y.%m.%d %H:%M:%S")
parse_from_str(str) ==
    LET p == parse_items(str, LaunchFormat, NoFields) IN
    IF p.ok THEN to_naive_datetime(p.val) ELSE None

\* mutant of read_exact: the buffer holds 20 bytes
read_exact_20(b) == IF Len(b) < 20 THEN None ELSE Some(SubSeq(b, 1, 20))

\* let mut buffer = [0 as u8; 19]; f.read_exact(&mut buffer)?
read_exact(b) == IF Len(b) < 19 THEN None ELSE Some(SubSeq(b, 1, 19))

\* std::str::from_utf8(&buffer)
from_utf8(buffer) ==
    IF \E i \in 1..Len(buffer) : buffer[i] = "FF" THEN None ELSE Some(buffer)

\* assume_launch_time on the bytes of the file: the civil time, or the error
launch_time(b) ==
    IF ~read_exact(b).ok THEN None
    ELSE IF ~from_utf8(read_exact(b).val).ok THEN None
    ELSE parse_from_str(from_utf8(read_exact(b).val).val)

\* a log is opened: a header, what follows it, or a file cut short
InitLaunch ==
    /\ ProgramIdle
    /\ CfgIdle
    /\ pc = "bytes"
    /\ \E hd \in Headers, tl \in Tails :
          bytes \in {hd \o tl, SubSeq(hd, 1, 18)}
    /\ launch = None
    /\ text = <<>> /\ pattern = None /\ printed = None /\ reparsed = None
    /\ fname = <<>> /\ lit = <<>> /\ shown = None
    /\ orderA = <<>> /\ orderB = <<>> /\ endA = None /\ endB = None

\* move_log_file: assume_launch_time(&mut file)
AssumeLaunchTime ==
    /\ pc = "bytes"
    /\ launch' = launch_time(bytes)
    /\ pc' = "resolved"
    /\ UNCHANGED <<programVars, cfgVars, text, pattern, printed, reparsed, fname, lit,
                   shown, bytes, orderA, orderB, endA, endB>>

SpecLaunch == InitLaunch /\ [][AssumeLaunchTime]_vars

(* ======================================================================= *)
(* The order of the directory entries                                      *)
(* ======================================================================= *)
\* The pass when no call fails, as a function of the order in which
\* read_dir returns the entries.

\* the orders in which read_dir can return the entries
Orders ==
    {o \in [1..Cardinality(SrcNames) -> SrcNames] :
        \A i, j \in 1..Cardinality(SrcNames) : i # j => o[i] # o[j]}

\* move_log_file for the entry n on the folders fs when no call fails: the
\* entry is skipped when it cannot be opened, fails when its timestamp
\* cannot be read, is left alone when the destination exists, and is copied
\* (keep_old) or moved otherwise
relocate(cfg, fs, n) ==
    IF fs.src[n] = NoFile \/ n \in locked THEN fs
    ELSE IF ~cfg.file_ctime /\ ~assume_launch_time(fs.src[n]).ok THEN fs
    ELSE LET t == IF cfg.file_ctime THEN creation_time(n)
                  ELSE assume_launch_time(fs.src[n]).val
             d == Render(cfg, t, n)
         IN IF fs.out[d] # NoFile THEN fs
            ELSE IF cfg.keep_old
            THEN [fs EXCEPT !.out[d] = fs.src[n]]
            ELSE [fs EXCEPT !.out[d] = fs.src[n], !.src[n] = NoFile]

\* rename_main over the entries in the order given
RECURSIVE rename_pass(_, _, _)
rename_pass(cfg, fs, order) ==
    IF order = <<>> THEN fs
    ELSE rename_pass(cfg,
                     IF Matches(cfg, Head(order))
                     THEN relocate(cfg, fs, Head(order)) ELSE fs,
                     Tail(order))

\* a configuration read_config accepted whose pattern renders, a source
\* folder, an empty output folder, and two orders of the entries
InitOrder ==
    /\ mode = "cli"
    /\ cfgFile \in {c \in Docs : read_config(c).ok /\ ~RenderPanics(c)}
    /\ config = cfgFile
    /\ inputs = DefaultConfig
    /\ src \in InitSrc
    /\ out = [d \in DstNames |-> NoFile]
    /\ outDir = TRUE
    /\ locked \in SUBSET Live
    /\ pc = "orders"
    /\ todo = {}
    /\ cur = "none"
    /\ ts = NoTs
    /\ dst = NoDst
    /\ renameErr = "none"
    /\ createdNew = FALSE
    /\ flushed = FALSE
    /\ result = NoResult
    /\ passResult = "none"
    /\ failedAt = "none"
    /\ ops = {}
    /\ run = 0
    /\ saves = 0
    /\ dialog = "none"
    /\ foreign = 0
    /\ outStart = [d \in DstNames |-> NoFile]
    /\ prevDone = {}
    /\ prevSkipped = {}
    /\ task = "absent"
    /\ orderA \in Orders
    /\ orderB \in Orders
    /\ endA = None
    /\ endB = None
    /\ text = <<>> /\ pattern = None /\ printed = None /\ reparsed = None
    /\ fname = <<>> /\ lit = <<>> /\ shown = None
    /\ bytes = <<>> /\ launch = None
    /\ CfgIdle

\* the pass with the entries returned in the order orderA
PassOverA ==
    /\ pc = "orders"
    /\ ~endA.ok
    /\ endA' = Some(rename_pass(config, [src |-> src, out |-> out], orderA))
    /\ UNCHANGED <<programVars, cfgVars, pc, text, pattern, printed, reparsed, fname,
                   lit, shown, bytes, launch, orderA, orderB, endB>>

\* the pass from the same folders with the entries returned in orderB
PassOverB ==
    /\ pc = "orders"
    /\ ~endB.ok
    /\ endB' = Some(rename_pass(config, [src |-> src, out |-> out], orderB))
    /\ UNCHANGED <<programVars, cfgVars, pc, text, pattern, printed, reparsed, fname,
                   lit, shown, bytes, launch, orderA, orderB, endA>>

NextOrder ==
    \/ PassOverA
    \/ PassOverB

SpecOrder == InitOrder /\ [][NextOrder]_vars

(* ======================================================================= *)
(* The configuration document: read_config, save_config                    *)
(* ======================================================================= *)
\* config.toml is a toml::Value: two tables, "source" and "output", each a
\* map from keys to values.  A value is <<"String", text>>,
\* <<"Boolean", b>> or <<"Integer", i>>; Absent stands for a key the table
\* does not have, NoSection (present = FALSE) for a table the document does
\* not have and NotFound (found = FALSE) for a missing config.toml.  Texts
\* are sequences of pieces.
Absent == <<"Absent">>
Str(s) == <<"String", s>>
Bool(b) == <<"Boolean", b>>
Integer(i) == <<"Integer", i>>
NoSection ==
    [present |-> FALSE, folder |-> Absent, pattern |-> Absent,
     keep_old |-> Absent, utc_time |-> Absent, file_ctime |-> Absent,
     extra |-> Absent]
NotFound == [found |-> FALSE, source |-> NoSection, output |-> NoSection]

\* folders
VRChatFolder == <<"LocalLow", "VRChat", "VRChat">>
LogsFolder == <<"LocalLow", "VRChat", "VRChat", "logs">>
OtherFolder == <<"D:", "logs">>

\* regex texts: the default source pattern, another one that compiles and
\* one that does not
DefaultRegex == <<"^output_log_(?:\\d{4}-\\d{2}-\\d{2}_)?\\d{2}-\\d{2}-\\d{2}(?P<in_sec_num>\\d+)?\\.txt$">>
OtherRegex == <<"^output_log_.*\\.txt$">>
BadRegex == <<"(">>

\* template texts
DefaultTemplate ==
    <<"output_log_", "%", "Y", "-", "%", "m", "-", "%", "d", "_",
      "%", "H", "-", "%", "M", "-", "%", "S", "{regex:in_sec_num}", ".txt">>
TRADITIONAL_DEFAULT ==
    <<"output_log_", "%", "0", "Y", "-", "%", "0", "m", "-", "%", "0", "d",
      "_", "%", "0", "H", "-", "%", "0", "M", "-", "%", "0", "S", ".txt">>
Templates == {TRADITIONAL_DEFAULT, <<"%", "Y">>, <<"%", "0", "Y">>,
              <<"%", "%">>, <<"%", "U">>, <<"%">>}

\* Regex::new(str): a group that is not closed, or a repetition in braces
\* that holds no number, is rejected
Regex_new(str) ==
    IF \E i \in 1..Len(str) : str[i] \in {"(", "{regex:in_sec_num}"}
    THEN None ELSE Some(str)

\* the tables a document can have
SourceSections ==
    [present : {TRUE},
     folder : {Absent, Str(OtherFolder), Integer(1)},
     pattern : {Absent, Str(DefaultRegex), Str(OtherRegex), Str(BadRegex)},
     keep_old : {Absent, Bool(TRUE), Bool(FALSE), Str(<<"false">>)},
     utc_time : {Absent}, file_ctime : {Absent},
     extra : {Absent, Integer(1)}]
OutputSections ==
    [present : {TRUE},
     folder : {Absent, Str(OtherFolder), Integer(1)},
     pattern : {Absent, Integer(1)} \cup {Str(t) : t \in Templates},
     keep_old : {Absent},
     utc_time : {Absent, Bool(TRUE), Str(<<"true">>)},
     file_ctime : {Absent, Bool(TRUE)},
     extra : {Absent, Integer(1)}]
Documents ==
    [found : {TRUE},
     source : SourceSections \cup {NoSection},
     output : OutputSections \cup {NoSection}]

\* impl Default for Source
Source_default ==
    [folder |-> VRChatFolder, pattern |-> DefaultRegex, keep_old |-> TRUE]

\* impl Default for Output; the default pattern is collected from
\* StrftimeItems directly
Output_default ==
    [folder |-> LogsFolder, pattern |-> StrftimeItems(DefaultTemplate),
     utc_time |-> FALSE, file_ctime |-> FALSE]

\* impl Default for ConfigFile
ConfigFile_default == [source |-> Source_default, output |-> Output_default]

\* ConfigFile::new(Source::new(..), Output::new(..))
ConfigFile_new(sfolder, spattern, keep_old, ofolder, opattern, utc, ctime) ==
    [source |-> [folder |-> sfolder, pattern |-> spattern,
                 keep_old |-> keep_old],
     output |-> [folder |-> ofolder, pattern |-> opattern,
                 utc_time |-> utc, file_ctime |-> ctime]]

\* mutant of Source_read_from_file: a table without keep_old turns it off
Source_read_from_file_reset(self, t) ==
    LET s1 == IF t.folder[1] = "String"
              THEN [self EXCEPT !.folder = t.folder[2]] ELSE self
        rx == IF t.pattern[1] = "String"
              THEN Regex_new(t.pattern[2]) ELSE Some(s1.pattern)
    IN IF ~rx.ok THEN None
       ELSE Some([s1 EXCEPT !.pattern = rx.val,
                            !.keep_old = IF t.keep_old[1] = "Boolean"
                                         THEN t.keep_old[2] ELSE FALSE])

\* Source::read_from_file: a key is applied when its value has the type of
\* the field; Regex::new(str)? ends the reading with an error
Source_read_from_file(self, t) ==
    LET s1 == IF t.folder[1] = "String"
              THEN [self EXCEPT !.folder = t.folder[2]] ELSE self
        rx == IF t.pattern[1] = "String"
              THEN Regex_new(t.pattern[2]) ELSE Some(s1.pattern)
    IN IF ~rx.ok THEN None
       ELSE Some([s1 EXCEPT !.pattern = rx.val,
                            !.keep_old = IF t.keep_old[1] = "Boolean"
                                         THEN t.keep_old[2] ELSE @])

\* Output::read_from_file: as for the source; a pattern text equal to
\* TRADITIONAL_DEFAULT is not parsed and leaves the pattern as it is
Output_read_from_file(self, t) ==
    LET o1 == IF t.folder[1] = "String"
              THEN [self EXCEPT !.folder = t.folder[2]] ELSE self
        pat == IF t.pattern[1] = "String"
                  /\ t.pattern[2] # TRADITIONAL_DEFAULT
               THEN parse_pattern(t.pattern[2]) ELSE Some(o1.pattern)
    IN IF ~pat.ok THEN None
       ELSE Some([o1 EXCEPT !.pattern = pat.val,
                            !.utc_time = IF t.utc_time[1] = "Boolean"
                                         THEN t.utc_time[2] ELSE @,
                            !.file_ctime = IF t.file_ctime[1] = "Boolean"
                                           THEN t.file_ctime[2] ELSE @])

\* ConfigFile::read_from_file (application/src/config.rs)
ConfigFile_read_from_file(self, doc) ==
    LET s == IF doc.source.present
             THEN Source_read_from_file(self.source, doc.source)
             ELSE Some(self.source)
    IN IF ~s.ok THEN None
       ELSE LET o == IF doc.output.present
                     THEN Output_read_from_file(self.output, doc.output)
                     ELSE Some(self.output)
            IN IF ~o.ok THEN None
               ELSE Some([source |-> s.val, output |-> o.val])

\* ConfigFile::read_from_file of the revision in src/config.rs: the
\* "output" table is given to self.source.read_from_file
ConfigFile_read_from_file_old(self, doc) ==
    LET s == IF doc.source.present
             THEN Source_read_from_file(self.source, doc.source)
             ELSE Some(self.source)
    IN IF ~s.ok THEN None
       ELSE LET o == IF doc.output.present
                     THEN Source_read_from_file(s.val, doc.output)
                     ELSE Some(s.val)
            IN IF ~o.ok THEN None
               ELSE Some([source |-> o.val, output |-> self.output])

\* read_config: the defaults, overridden by the document when there is one
read_config_file(file) ==
    IF ~file.found THEN Some(ConfigFile_default)
    ELSE ConfigFile_read_from_file(ConfigFile_default, file)

\* read_config with ConfigFile::read_from_file of the revision in
\* src/config.rs
read_config_file_old(file) ==
    IF ~file.found THEN Some(ConfigFile_default)
    ELSE ConfigFile_read_from_file_old(ConfigFile_default, file)

\* #[serde(skip_serializing_if = "is_.._default")]: a field is written
\* unless it equals its default; patterns are compared by their text
Unless(isDefault, v) == IF isDefault THEN Absent ELSE v

\* toml::to_string(config): serialize_regex writes regex.as_str(),
\* serialize_pattern writes pattern_to_string(pattern) or fails
toml_to_string(c) ==
    LET p == pattern_to_string(c.output.pattern)
    IN IF ~p.ok THEN None
       ELSE Some(
        [found |-> TRUE,
         source |->
            [present |-> TRUE,
             folder |-> Unless(c.source.folder = Source_default.folder,
                               Str(c.source.folder)),
             pattern |-> Unless(c.source.pattern = Source_default.pattern,
                                Str(c.source.pattern)),
             keep_old |-> Unless(c.source.keep_old = Source_default.keep_old,
                                 Bool(c.source.keep_old)),
             utc_time |-> Absent, file_ctime |-> Absent, extra |-> Absent],
         output |->
            [present |-> TRUE,
             folder |-> Unless(c.output.folder = Output_default.folder,
                               Str(c.output.folder)),
             pattern |-> Unless(p = pattern_to_string(Output_default.pattern),
                                Str(p.val)),
             keep_old |-> Absent,
             utc_time |-> Unless(c.output.utc_time = Output_default.utc_time,
                                 Bool(c.output.utc_time)),
             file_ctime |-> Unless(c.output.file_ctime
                                        = Output_default.file_ctime,
                                   Bool(c.output.file_ctime)),
             extra |-> Absent]])

\* config.toml as some editor or an earlier version left it, or no file
InitConfig ==
    /\ ProgramIdle
    /\ pc = "doc"
    /\ toml \in Documents \cup {NotFound}
    /\ loaded = None
    /\ written = None
    /\ reread = None
    /\ text = <<>> /\ pattern = None /\ printed = None /\ reparsed = None
    /\ fname = <<>> /\ lit = <<>> /\ shown = None
    /\ bytes = <<>> /\ launch = None
    /\ orderA = <<>> /\ orderB = <<>> /\ endA = None /\ endB = None

patVars == <<text, pattern, printed, reparsed, fname, lit, shown, bytes,
             launch, orderA, orderB, endA, endB>>

\* main, gui_main: read_config()
ReadConfig ==
    /\ pc = "doc"
    /\ loaded' = read_config_file(toml)
    /\ pc' = "config"
    /\ UNCHANGED <<programVars, patVars, toml, written, reread>>

\* read_config() of the revision in src/config.rs
ReadConfigOld ==
    /\ pc = "doc"
    /\ loaded' = read_config_file_old(toml)
    /\ pc' = "config_old"
    /\ UNCHANGED <<programVars, patVars, toml, written, reread>>

\* GUIInputs::create_config: there is no config.toml yet and the
\* configuration is built from the input fields
NewConfig ==
    /\ pc = "doc"
    /\ toml = NotFound
    /\ \E sf \in {VRChatFolder, OtherFolder},
          rx \in {DefaultRegex, OtherRegex, BadRegex},
          k \in BOOLEAN,
          of \in {LogsFolder, OtherFolder},
          t \in Templates \cup {DefaultTemplate},
          u \in BOOLEAN :
        /\ Regex_new(rx).ok
        /\ parse_pattern(t).ok
        /\ loaded' = Some(ConfigFile_new(sf, Regex_new(rx).val, k, of,
                                         parse_pattern(t).val, u, FALSE))
    /\ pc' = "built"
    /\ UNCHANGED <<programVars, patVars, toml, written, reread>>

\* save_config(&config): toml::to_string(config), then fs::write
SaveConfig ==
    /\ pc \in {"config", "built"}
    /\ loaded.ok
    /\ written' = toml_to_string(loaded.val)
    /\ pc' = "saved"
    /\ UNCHANGED <<programVars, patVars, toml, loaded, reread>>

\* read_config() finds the file save_config wrote
RereadConfig ==
    /\ pc = "saved"
    /\ written.ok
    /\ reread' = read_config_file(written.val)
    /\ pc' = "reread"
    /\ UNCHANGED <<programVars, patVars, toml, loaded, written>>

NextConfig ==
    \/ ReadConfig
    \/ ReadConfigOld
    \/ NewConfig
    \/ SaveConfig
    \/ RereadConfig

SpecConfig == InitConfig /\ [][NextConfig]_vars

(* ======================================================================= *)
(* Claims                                                                  *)
(* ======================================================================= *)
Complete(f) == f # NoFile /\ f.chunks = NChunks
Changes == {"copy", "partial", "rename", "create", "delete"}
FileOps == {o \in ops : o[1] \in Changes}

\* C1 (as stated): a second pass in a row, with the same configuration and
\* nothing else touching the folders or the locks, makes no copy, rename or
\* delete at all.
C1_SecondRunMakesNoChange ==
    run = 2 => FileOps = {}

\* C1 (amended): in such a second pass every copy, rename or delete is for an
\* entry the first pass neither relocated nor found relocated, and goes to a
\* destination that was absent when the second pass started; the entries the
\* first pass relocated or found relocated are left alone.
C1_SecondRunOnlyRedoesFailures ==
    run = 2 =>
        \A o \in FileOps : o[2] \notin prevDone /\ outStart[o[3]] = NoFile

\* C1 witness: a second pass ended, it found the destination of an entry the
\* first pass had relocated, and changed nothing.
C1_Witness ==
    /\ run = 2
    /\ pc = "done"
    /\ passResult = "ok"
    /\ FileOps = {}
    /\ \E n \in prevDone : result[n] = "exists"

\* where the relocation of the file f (a log under its source name) goes
ExpectedDst(f) ==
    Render(config,
           IF config.file_ctime THEN creation_time(f.bytes)
           ELSE assume_launch_time(f).val,
           f.bytes)

\* the complete content of the log n is at its source path
AtSource(n) == Complete(src[n]) /\ src[n].bytes = n

\* the complete content of the log n is at its destination path
AtDestination(n) ==
    \E d \in DstNames :
        /\ Complete(out[d])
        /\ out[d].bytes = n
        /\ d = ExpectedDst(out[d])

MbcPcs == {"mbc_open", "mbc_create", "mbc_copy", "mbc_flush", "mbc_remove"}

\* C2: during a move (keep_old false) the complete content of every log is,
\* after every step (also after a failed one), at its source path or at its
\* destination path; and a step that removes a source file is either the
\* rename itself or the remove_file of move_by_copy, taken when the whole
\* content was written and flushed to a destination move_by_copy created new.
C2_MoveNeverLosesContent ==
    [][(~config'.keep_old /\ config' # Missing) =>
        /\ \A n \in SrcNames : AtSource(n)' \/ AtDestination(n)'
        /\ \A n \in SrcNames :
            (src[n] # NoFile /\ src'[n] = NoFile) =>
                \/ /\ pc = "rename"
                   /\ out'[dst] = src[n]
                \/ /\ pc = "mbc_remove"
                   /\ createdNew
                   /\ flushed
                   /\ out[dst] = src[n]
                   /\ out'[dst] = src[n]]_vars

\* C2 witness: move_by_copy went through: the source is gone, the complete
\* content is at the destination that create_new made.
C2_Witness ==
    /\ ~config.keep_old
    /\ pc = "next"
    /\ \E o \in ops :
        /\ o[1] = "delete"
        /\ src[o[2]] = NoFile
        /\ result[o[2]] = "ok"
        /\ Complete(out[o[3]])
        /\ out[o[3]].bytes = o[2]

\* C3: move_file enters move_by_copy exactly when fs::rename returned the
\* cross-device error; any other rename error is the entry's result, with no
\* file created or changed; and once move_by_copy ran, the source is absent
\* only if the complete copy is at the destination.
C3_FallbackOnlyOnCrossDevice ==
    [][/\ (pc = "rename" /\ pc' # pc) =>
            /\ (pc' = "mbc_open") = (renameErr' = "xdev")
            /\ (renameErr' = "other") =>
                    /\ result'[cur] = "err"
                    /\ pc' = "next"
                    /\ src' = src
                    /\ out' = out
                    /\ ops' = ops
       /\ (pc' \in MbcPcs) => (pc \in MbcPcs \cup {"rename"})
       /\ \A o \in ops' :
            (o[1] = "create" /\ src'[o[2]] = NoFile) =>
                (Complete(out'[o[3]]) /\ out'[o[3]].bytes = o[2])]_vars

\* C3 witness: the rename failed with the cross-device error, the copy of the
\* fallback failed after the destination was created, the source is in place.
C3_Witness ==
    /\ ~config.keep_old
    /\ pc = "next"
    /\ renameErr = "xdev"
    /\ \E o \in ops :
        /\ o[1] = "create"
        /\ result[o[2]] = "err"
        /\ AtSource(o[2])
        /\ ~Complete(out[o[3]])

\* C4: after a relocation stopped midway, a later pass that returns Ok leaves
\* the complete content at the destination: an entry it reports as already
\* relocated ("exists") has a complete destination, never a partial one.
C4_LaterPassCompletesPartial ==
    (run >= 2 /\ pc = "done" /\ passResult = "ok") =>
        \A n \in SrcNames :
            (result[n] = "exists" /\ src[n] # NoFile) =>
                Complete(out[ExpectedDst(src[n])])

\* C5: when the destination path move_log_file computed exists, the call
\* returns Ok and changes nothing: source folder and output folder are as
\* before, for both values of keep_old, and no later step of the pass
\* touches the entry.
C5_ExistingDstIsNoOp ==
    [][/\ (/\ pc = "render"
           /\ pc' # pc
           /\ ~RenderPanics(config)
           /\ out[Render(config, ts, cur)] # NoFile) =>
                /\ result'[cur] = "exists"
                /\ pc' = "next"
                /\ src' = src
                /\ out' = out
                /\ ops' = ops
                /\ passResult' = passResult
       /\ \A n \in SrcNames :
            (result'[n] = "exists") => (\A o \in ops' : o[2] # n)]_vars

\* C5 witness: with keep_old false an entry found its destination present:
\* it is still complete in the source folder and nothing was done for it.
C5_Witness ==
    /\ ~config.keep_old
    /\ pc = "next"
    /\ \E n \in SrcNames :
        /\ result[n] = "exists"
        /\ AtSource(n)
        /\ out[ExpectedDst(src[n])] # NoFile
        /\ \A o \in ops : o[2] # n

\* C6: an entry another process holds open is skipped: the open step returns
\* Ok for it without creating or changing any file, the loop goes on with
\* the next entry, the pass result is not set by it; in both timestamp modes.
C6_LockedFileIsSkipped ==
    [][/\ (pc = "open" /\ pc' # pc /\ cur \in locked) =>
            /\ result'[cur] = "skipped"
            /\ pc' = "next"
            /\ todo' = todo
            /\ src' = src
            /\ out' = out
            /\ ops' = ops
            /\ passResult' = passResult
       /\ \A n \in SrcNames :
            (result'[n] = "skipped") => (\A o \in ops' : o[2] # n)
       /\ (pc' = "done" /\ failedAt' = "none") => passResult' = "ok"]_vars

\* C6 witness: in creation-time mode a pass ended Ok in which the held log
\* was skipped and the other log was relocated.
C6_Witness ==
    /\ config.file_ctime
    /\ pc = "done"
    /\ passResult = "ok"
    /\ result["log1"] = "skipped"
    /\ "log1" \in locked
    /\ result["log2"] = "ok"
    /\ AtSource("log1")

\* C7: with keep_old, once fs::copy succeeded for an entry, move_log_file
\* does not return an error for it, whatever the timestamp propagation did.
C7_StampOutcomeNeverFails ==
    config.keep_old =>
        \A o \in ops : (o[1] = "copy") => (result[o[2]] # "err")

\* C8: an error returned for one entry does not end the pass: the loop is at
\* its next iteration with the remaining entries and no pass result; and a
\* pass that returned Ok called move_log_file for every matching entry.
C8_FailureDoesNotStopPass ==
    [][/\ (cur # "none" /\ result'[cur] = "err") =>
            /\ pc' = "next"
            /\ todo' = todo
            /\ passResult' = "none"
       /\ (pc' = "done" /\ passResult' = "ok") =>
            \A n \in SrcNames :
                (Matches(config', n) /\ src'[n] # NoFile) =>
                    result'[n] # "none"]_vars

\* C8 witness: a pass returned Ok in which one entry failed and the other
\* was relocated.
C8_Witness ==
    /\ pc = "done"
    /\ passResult = "ok"
    /\ \E a, b \in SrcNames :
        /\ result[a] = "err"
        /\ result[b] = "ok"
        /\ \E o \in FileOps : o[2] = b

\* C9: rename_main returns an error exactly when creating the output folder
\* or enumerating the source folder failed; when that happened before the
\* first entry was read no file was touched; an entry's error never makes
\* the result an error; the GUI reports what rename_main returned.
C9_PassFailsOnlyOnPassLevelErrors ==
    /\ (passResult = "err") = (failedAt # "none")
    /\ (failedAt \in {"mkdir", "readdir"}) =>
            (ops = {} /\ result = NoResult /\ passResult = "err")
    /\ (pc = "done" /\ failedAt = "none") => passResult = "ok"
    /\ (dialog = "error") => passResult = "err"
    /\ (dialog = "succeed") => passResult = "ok"

\* C9 witness: the enumeration failed: the pass returned the error and
\* nothing was copied, moved or deleted.
C9_Witness ==
    /\ pc = "done"
    /\ passResult = "err"
    /\ failedAt = "readdir"
    /\ outDir
    /\ ops = {}
    /\ \A n \in SrcNames : AtSource(n)

\* C10: whenever a pass was started, and so whenever the output folder was
\* created, the source folder enumerated or a log opened, the configuration
\* in use holds a regex that compiled and a template that parsed; the GUI
\* saved nothing and ran nothing when create_config returned None, and main
\* ran nothing when read_config failed.
C10_NoPassWithInvalidPatterns ==
    /\ (run > 0 \/ pc \notin {"idle", "exit"} \/ outDir \/ ops # {}) =>
            (config.regex = "ok" /\ config.templ \in {"ts", "cap", "tz"})
    /\ (saves > 0) =>
            (cfgFile.regex = "ok" /\ cfgFile.templ \in {"ts", "cap", "tz"})
    /\ (mode = "gui" /\ (inputs.regex = "bad" \/ inputs.templ = "bad")) =>
            (run = 0 /\ saves = 0 /\ cfgFile = Missing /\ ~outDir)
    /\ (mode = "cli" /\ (cfgFile.regex = "bad" \/ cfgFile.templ = "bad")) =>
            (run = 0 /\ ~outDir)

\* C10 witness: Execute Now was clicked with a template that does not parse:
\* the message box was shown, nothing was saved, no pass was started.
C10_Witness ==
    /\ mode = "gui"
    /\ inputs.regex = "ok"
    /\ inputs.templ = "bad"
    /\ dialog = "invalid"
    /\ saves = 0
    /\ run = 0
    /\ ~outDir

\* C11: rendering the output file name never aborts the process: whatever
\* pattern parse_pattern accepted, with either value of utc_time and any
\* resolved timestamp, move_log_file gets past the rendering of the name.
C11_RenderNeverPanics == pc # "panicked"

(* ---- the output pattern as text ---- *)
NumericNames == {"Year", "YearDiv100", "YearMod100", "Month", "Day",
                 "WeekFromSun", "WeekFromMon", "NumDaysFromSun",
                 "WeekdayFromMon", "IsoYear", "IsoYearMod100", "IsoWeek",
                 "Ordinal", "IsoYearDiv100", "Hour", "Hour12", "Minute",
                 "Second", "Nanosecond", "Timestamp"}
FixedNames == {"ShortMonthName", "LongMonthName", "ShortWeekdayName",
               "LongWeekdayName", "LowerAmPm", "UpperAmPm", "Nanosecond",
               "Nanosecond3", "Nanosecond6", "Nanosecond9", "TimezoneName",
               "TimezoneOffsetColon", "TimezoneOffset", "RFC2822", "RFC3339"}

\* the spellings pattern_to_string prints for a field
CanonSpellings ==
    {<<"%", pad, NumericLetter(n).val>> :
        pad \in {"-", "0", "_"}, n \in NumericNames}
    \cup {FixedText(f).val : f \in FixedNames}
    \cup {<<"%", d, "f">> : d \in {"3", "6", "9"}}

\* every '%' of t starts one of these spellings, or "%%", the literal
\* percent sign, which is no field
RECURSIVE Canonical(_)
Canonical(t) ==
    IF t = <<>> THEN TRUE
    ELSE IF Head(t) # "%" THEN Canonical(Tail(t))
    ELSE IF Len(t) >= 2 /\ t[2] = "%" THEN Canonical(SubSeq(t, 3, Len(t)))
    ELSE \E k \in 2..4 :
            /\ k <= Len(t)
            /\ SubSeq(t, 1, k) \in CanonSpellings
            /\ Canonical(SubSeq(t, k + 1, Len(t)))

\* C13: for a template text that parse_pattern accepts and that spells every
\* field the way pattern_to_string prints it, printing the parsed sequence
\* gives the text back.
C13_CanonicalTextRoundTrips ==
    (pc = "printed" /\ text # <<>> /\ Canonical(text)) => printed = Some(text)

\* C14: saving and loading the pattern loses nothing: every sequence
\* parse_pattern accepted is printed, the printed text is accepted again, and
\* the sequence read back writes the same characters and the same fields.
C14_SaveLoadKeepsMeaning ==
    /\ (pc = "printed" /\ text # <<>>) => printed.ok
    /\ pc = "reloaded" =>
            /\ reparsed.ok
            /\ Display(reparsed.val) = Display(pattern.val)

\* the items the claim says parse_pattern refuses
Refused(x) ==
    \/ x[1] = "Error"
    \/ x[1] = "Numeric" /\ x[2] = "Internal"
    \/ x[1] = "Internal"
        /\ x[2] \notin {"Nanosecond3NoDot", "Nanosecond6NoDot",
                        "Nanosecond9NoDot"}
    \/ x[1] = "Fixed" /\ x[2] \in {"TimezoneOffsetZ", "TimezoneOffsetColonZ"}

\* C15: parse_pattern returns None when the items of the text include an
\* error item, an internal numeric field, an unsupported internal fixed field
\* or a timezone-offset-Z variant; what it returns has one item per item of
\* the text and none of these.
C15_ParseRefusesUnsupported ==
    (pc = "parsed" /\ text # <<>>) =>
        LET items == StrftimeItems(text) IN
        /\ (\E i \in 1..Len(items) : Refused(items[i])) => ~pattern.ok
        /\ pattern.ok =>
                /\ Len(pattern.val) = Len(items)
                /\ \A i \in 1..Len(pattern.val) : ~Refused(pattern.val[i])

\* "%#z", an internal fixed field without a text of its own, was refused
C15_Witness ==
    /\ pc = "parsed"
    /\ text = <<"%", "#", "z">>
    /\ StrftimeItems(text) = <<<<"Internal", "TimezoneOffsetPermissive">>>>
    /\ pattern = None

\* the items the claim says have no text of their own
NoTextForm(x) ==
    \/ Refused(x)
    \/ x[1] = "Numeric" /\ x[2] = "IsoYearDiv100"

Placeholder == <<"{", "regex", ":", "in_sec_num", "}">>

\* the digits of a file name "output_log_<digits>.txt"
Digits(name) == SubSeq(name, 3, Len(name) - 1)

\* the text a literal is to be written as: the first "{" and the first "}"
\* after it delimit an occurrence; it is replaced when it reads
\* {regex:NAME}, by the digits of the file name for the group in_sec_num and
\* by nothing for any other NAME; the text before it is kept and the text
\* after it is treated the same way; without such an occurrence the text
\* stays as it is.
RECURSIVE Substituted(_, _)
Substituted(name, s) ==
    LET open == Find(s, "{") IN
    IF open = 0 THEN s
    ELSE LET close ==
                IF \E j \in (open + 1)..Len(s) : s[j] = "}"
                THEN CHOOSE j \in (open + 1)..Len(s) :
                        s[j] = "}" /\ \A k \in (open + 1)..(j - 1) : s[k] # "}"
                ELSE 0
         IN IF close = 0 THEN s
            ELSE LET inner == SubSeq(s, open + 1, close - 1)
                     value ==
                        IF Len(inner) >= 2 /\ inner[1] = "regex"
                           /\ inner[2] = ":"
                        THEN IF SubSeq(inner, 3, Len(inner)) = <<"in_sec_num">>
                             THEN Digits(name) ELSE <<>>
                        ELSE SubSeq(s, open, close)
                 IN SubSeq(s, 1, open - 1) \o value
                    \o Substituted(name, SubSeq(s, close + 1, Len(s)))

\* C17: MatchingIter writes a literal item with each resolved {...}
\* occurrence replaced and everything else as it was and in its order:
\* unresolved placeholders keep their braces, an unterminated "{" and a
\* stray "}" stay text; space and calendar items pass through unchanged.
C17_OnlyResolvedPlaceholdersChange ==
    pc = "shown" =>
        LET item == pattern.val[1] IN
        IF item[1] \in {"Literal", "OwnedLiteral"}
        THEN shown.val[2] = Substituted(fname, lit)
             /\ shown.val[1] \in {"Literal", "OwnedLiteral"}
        ELSE shown.val = item

\* a stray "}" stayed text and the placeholder after it was replaced
C17_Witness ==
    /\ pc = "shown"
    /\ fname = <<"output_log", "_", "5", ".txt">>
    /\ lit = <<"}", "{", "regex", ":", "}">>
    /\ shown.val = <<"OwnedLiteral", <<"}">>>>

\* C18 (as stated): {regex:in_sec_num} is written as "5" for
\* output_log_5.txt and as the empty string for output_log.txt.
C18_CaptureOfPlainName ==
    (pc # "name" /\ lit = Placeholder) =>
        /\ fname = <<"output_log", "_", "5", ".txt">> =>
                (pc = "shown" => shown.val[2] = <<"5">>)
        /\ fname = <<"output_log", ".txt">> =>
                pc \in {"render", "shown"}
                /\ (pc = "shown" => shown.val[2] = <<>>)

\* C18 (amended): {regex:in_sec_num} is written as the digits the group
\* matched in the file name and as the empty string when the group took no
\* part in the match (output_log_.txt); output_log.txt does not match the
\* pattern and no name is rendered for it.
C18_CaptureRendersMatchedText ==
    /\ (pc = "shown" /\ lit = Placeholder
        /\ pattern.val[1][1] \in {"Literal", "OwnedLiteral"}) =>
            shown.val = <<"OwnedLiteral", Digits(fname)>>
    /\ fname = <<"output_log", ".txt">> => pc \in {"name", "nomatch"}

\* the group took no part in the match of output_log_.txt: the empty string
C18_Witness ==
    /\ pc = "shown"
    /\ fname = <<"output_log", "_", ".txt">>
    /\ lit = Placeholder
    /\ shown.val = <<"OwnedLiteral", <<>>>>

(* ---- the order of the entries ---- *)
\* C19: the folders after a pass do not depend on the order in which the
\* entries were returned: the passes over two orders of the same entries
\* leave the same files with the same content in the output folder and the
\* same files in the source folder.
C19_OrderDoesNotMatter ==
    (endA.ok /\ endB.ok) => endA.val = endB.val

(* ---- the launch time ---- *)
\* the number written by the bytes i..j
At(b, i, j) == Value(SubSeq(b, i, j))

\* the first 19 bytes have the shape DDDD.DD.DD DD:DD:DD
Shaped(b) ==
    /\ Len(b) >= 19
    /\ \A i \in {1, 2, 3, 4, 6, 7, 9, 10, 12, 13, 15, 16, 18, 19} :
            IsDigit(b[i])
    /\ b[5] = "." /\ b[8] = "." /\ b[11] = " "
    /\ b[14] = ":" /\ b[17] = ":"

\* C20: in content mode the civil time is read from the first 19 bytes,
\* YYYY.MM.DD HH:MM:SS, whatever follows them; 2022.10.14 20:15:30 is year
\* 2022, month 10, day 14, hour 20, minute 15, second 30.
C20_LaunchTimeFromFirst19Bytes ==
    (pc = "resolved" /\ Shaped(bytes)) =>
        /\ (/\ At(bytes, 6, 7) \in 1..12
            /\ At(bytes, 9, 10) \in 1..DaysIn(At(bytes, 1, 4), At(bytes, 6, 7))
            /\ At(bytes, 12, 13) <= 23
            /\ At(bytes, 15, 16) <= 59
            /\ At(bytes, 18, 19) <= 59) =>
                launch = Some([year |-> At(bytes, 1, 4),
                               month |-> At(bytes, 6, 7),
                               day |-> At(bytes, 9, 10),
                               hour |-> At(bytes, 12, 13),
                               minute |-> At(bytes, 15, 16),
                               second |-> At(bytes, 18, 19),
                               leap |-> FALSE])
        /\ SubSeq(bytes, 1, 19) = <<"2", "0", "2", "2", ".", "1", "0", ".",
                                     "1", "4", " ", "2", "0", ":", "1", "5",
                                     ":", "3", "0">> =>
                launch = Some([year |-> 2022, month |-> 10, day |-> 14,
                               hour |-> 20, minute |-> 15, second |-> 30,
                               leap |-> FALSE])

\* the log 2022.10.14 20:15:30 followed by a digit was resolved
C20_Witness ==
    /\ pc = "resolved"
    /\ bytes = <<"2", "0", "2", "2", ".", "1", "0", ".", "1", "4", " ", "2",
                 "0", ":", "1", "5", ":", "3", "0", "9">>
    /\ launch.ok
    /\ launch.val.year = 2022

(* ---- C21 ---- *)
\* C21: in content mode a file whose first 19 bytes cannot be read as a
\* timestamp (too short, not UTF-8, not in the timestamp format) fails for
\* that file only: move_log_file returns the error for this entry, nothing
\* in the source or output folder changes, the pass goes on with the next
\* entry and does not return the entry again.
C21_BadHeaderFailsThatFileOnly ==
    [][/\ (/\ pc = "time"
           /\ ~config.file_ctime
           /\ src[cur].hdr \in {Bad, Short}
           /\ pc' # pc)
          => /\ pc' = "next"
             /\ result'[cur] = "err"
             /\ src' = src
             /\ out' = out
             /\ ops' = ops
             /\ passResult' = passResult
             /\ cur \notin todo'
       /\ \A n \in SrcNames : result'[n] # "none" => n \notin todo']_vars

\* log1 has an unreadable header and failed, log2 was relocated in the same
\* pass, and no file of the output folder holds log1's content
C21_Witness ==
    /\ ~config.file_ctime
    /\ src["log1"].hdr \in {Bad, Short}
    /\ result["log1"] = "err"
    /\ result["log2"] = "ok"
    /\ \A d \in DstNames : out[d] = NoFile \/ out[d].bytes # "log1"

(* ---- C22 ---- *)
\* C22: in content mode the name is rendered from the timestamp of the
\* file's first 19 bytes as it stands, for utc_time true and false alike:
\* no zone offset is applied, so the two settings render the same fields.
C22_ContentTimeIsNotConverted ==
    (~config.file_ctime /\ pc \in {"copy", "rename"})
        => /\ dst[1] = src[cur].hdr
           /\ ts.utc = ts.local

\* a name was rendered from the header with utc_time set, where the local
\* zone is not UTC
C22_Witness ==
    /\ ~config.file_ctime
    /\ config.utc_time
    /\ LocalOffset # 0
    /\ pc \in {"copy", "rename"}
    /\ dst[1] = src[cur].hdr

(* ---- C23 ---- *)
SourceKeys == {"folder", "pattern", "keep_old"}
OutputKeys == {"folder", "pattern", "utc_time", "file_ctime"}

\* the document without the key k of the table sec
Without(doc, sec, k) ==
    IF doc[sec].present THEN [doc EXCEPT ![sec][k] = Absent] ELSE doc

\* C23: read_config starts from the defaults: a field whose key is missing
\* holds its default, taking a key out of the document leaves every other
\* field as it was read, a key that no field has changes nothing, and
\* without a config.toml the result is the default configuration, not an
\* error.
C23_MissingKeysKeepDefaults ==
    pc = "config" =>
        /\ ~toml.found => loaded = Some(ConfigFile_default)
        /\ loaded.ok =>
            /\ \A k \in SourceKeys :
                toml.source[k][1] = "Absent"
                    => loaded.val.source[k] = Source_default[k]
            /\ \A k \in OutputKeys :
                toml.output[k][1] = "Absent"
                    => loaded.val.output[k] = Output_default[k]
            /\ \A k \in SourceKeys :
                LET less == read_config_file(Without(toml, "source", k))
                IN /\ less.ok => less.val.output = loaded.val.output
                   /\ less.ok => \A j \in SourceKeys \ {k} :
                            less.val.source[j] = loaded.val.source[j]
            /\ \A k \in OutputKeys :
                LET less == read_config_file(Without(toml, "output", k))
                IN /\ less.ok => less.val.source = loaded.val.source
                   /\ less.ok => \A j \in OutputKeys \ {k} :
                            less.val.output[j] = loaded.val.output[j]
        /\ loaded = read_config_file(
                        Without(Without(toml, "source", "extra"),
                                "output", "extra"))

\* a document with a folder for the source, no keep_old, and keys that no
\* field has: the folder is the document's, keep_old is the default
C23_Witness ==
    /\ pc = "config"
    /\ toml.found
    /\ toml.source.folder = Str(OtherFolder)
    /\ toml.source.keep_old = Absent
    /\ toml.source.extra # Absent
    /\ toml.output.extra # Absent
    /\ loaded.ok
    /\ loaded.val.source.folder = OtherFolder
    /\ loaded.val.source.keep_old = Source_default.keep_old
    /\ loaded.val.output = Output_default

(* ---- C24 ---- *)
\* C24: after read_from_file the output settings hold the values of the
\* "output" table (a pattern text other than the previous default text)
\* and the source settings are what the "source" table alone gives: no key
\* of the "output" table changes them.  The property is stated for
\* read_from_file of both revisions.
C24_SectionsApplyToTheirOwnSettings ==
    (pc \in {"config", "config_old"} /\ toml.found /\ loaded.ok) =>
        /\ toml.output.folder[1] = "String"
                => loaded.val.output.folder = toml.output.folder[2]
        /\ toml.output.utc_time[1] = "Boolean"
                => loaded.val.output.utc_time = toml.output.utc_time[2]
        /\ (/\ toml.output.pattern[1] = "String"
            /\ toml.output.pattern[2] # TRADITIONAL_DEFAULT)
                => loaded.val.output.pattern
                        = parse_pattern(toml.output.pattern[2]).val
        /\ \A k \in SourceKeys :
            loaded.val.source[k] =
                IF k = "keep_old"
                THEN (IF toml.source[k][1] = "Boolean"
                      THEN toml.source[k][2] ELSE Source_default[k])
                ELSE (IF toml.source[k][1] = "String"
                      THEN toml.source[k][2] ELSE Source_default[k])

(* ---- C25 ---- *)
\* a value the field cannot take: of another type, a regex that does not
\* compile, a template that does not parse
WrongType(v, type) == v[1] \notin {"Absent", type}
Uninterpretable(doc) ==
    \/ WrongType(doc.source.folder, "String")
    \/ WrongType(doc.source.pattern, "String")
    \/ WrongType(doc.source.keep_old, "Boolean")
    \/ WrongType(doc.output.folder, "String")
    \/ WrongType(doc.output.pattern, "String")
    \/ WrongType(doc.output.utc_time, "Boolean")
    \/ WrongType(doc.output.file_ctime, "Boolean")
    \/ doc.source.pattern[1] = "String" /\ doc.source.pattern[2] = BadRegex
    \/ doc.output.pattern[1] = "String" /\ doc.output.pattern[2] = <<"%">>

\* C25: a document with a value that cannot be interpreted for its field
\* makes read_config fail; the value is never dropped with the field left
\* at its default.
C25_UninterpretableValueFails ==
    (pc = "config" /\ Uninterpretable(toml)) => ~loaded.ok

(* ---- C26 ---- *)
\* the same folders, source pattern text and flags, and output patterns
\* with the same text
SameConfig(a, b) ==
    /\ a.source = b.source
    /\ a.output.folder = b.output.folder
    /\ a.output.utc_time = b.output.utc_time
    /\ a.output.file_ctime = b.output.file_ctime
    /\ pattern_to_string(a.output.pattern)
            = pattern_to_string(b.output.pattern)

\* C26: save_config followed by read_config gives back an equal
\* configuration: the save succeeds, the read succeeds, and folders,
\* source pattern text, flags and the text of the output pattern are those
\* of the configuration that was saved.
C26_SaveThenReadIsTheSame ==
    /\ pc = "saved" => written.ok
    /\ pc = "reread" => (reread.ok /\ SameConfig(loaded.val, reread.val))

(* ---- C27 ---- *)
\* C27: no step replaces the content of a file that is in the output
\* folder: whoever wrote a destination first, the pass or another process
\* in the time between the existence check and the copy or rename, its
\* content stays.
C27_DestinationIsNeverReplaced ==
    [][\A d \in DstNames :
        out[d] # NoFile => (out'[d] # NoFile /\ out'[d].bytes = out[d].bytes)
      ]_vars

(* ---- C28 ---- *)
\* C28: with keep_old set no step deletes, renames, truncates or rewrites a
\* file of the source folder, whatever the step returns.
C28_KeepOldLeavesSourceAlone ==
    [][config.keep_old => src' = src]_vars

\* with keep_old a pass ended in which one log was copied and the copy of
\* another failed half way; every log is still whole in the source folder
C28_Witness ==
    /\ config.keep_old
    /\ pc = "done"
    /\ \E n \in SrcNames : AtDestination(n)
    /\ \E o \in ops : o[1] = "partial"
    /\ \A n \in SrcNames : AtSource(n)

(* ---- C29 ---- *)
\* C29: a log the pass before skipped because it was held open, and that
\* the next pass (same configuration) handles without an error, is
\* relocated by that pass: its complete content is at its destination.
C29_SkippedFileIsRelocatedLater ==
    \A n \in SrcNames :
        (run = 2 /\ n \in prevSkipped /\ result[n] \in {"ok", "exists"})
            => AtDestination(n)

(* ---- C30 ---- *)
\* C30: in the window a step that starts a pass or changes the scheduled
\* task is a step in which the configuration of the input fields was
\* validated and written to config.toml; a step that ends in the message
\* box for an invalid pattern or for a failed save starts no pass and
\* leaves the scheduled task alone; and the pass is given exactly the
\* configuration that was written.
C30_GuiActsOnlyAfterSave ==
    [][/\ (run' # run \/ task' # task) =>
            /\ create_config(inputs).ok
            /\ cfgFile' = create_config(inputs).val
            /\ saves' = saves + 1
       /\ run' # run => config' = cfgFile'
       /\ (dialog' \in {"invalid", "saveerr"} /\ dialog' # dialog) =>
            /\ run' = run
            /\ task' = task
            /\ pc' # "mkdir"]_vars

\* the task was registered from the window and a pass started from the
\* window ended, each after its own save
C30_Witness ==
    /\ task = "registered"
    /\ run = 1
    /\ pc = "done"
    /\ saves = 2
    /\ config = cfgFile
====
